---- MODULE Spec2Model ----
(***************************************************************************)
(* Authentication and registration core of the Setlist backend.           *)
(*                                                                         *)
(* The store (tables users and artist_profiles) is shared by request      *)
(* handlers that run concurrently.  A handler is split at its database    *)
(* round trips (each query, each commit): these are the points at which   *)
(* another handler's statements can be interleaved.  Everything a handler *)
(* does between two round trips is part of the step that follows the      *)
(* earlier round trip.                                                     *)
(*                                                                         *)
(* Spec serves registrations one at a time, SpecLogin serves              *)
(* registrations, logins and deactivations one at a time, and SpecRace    *)
(* interleaves the round trips of two registration handlers.  SpecToken   *)
(* adds the clock and the bearer tokens that clients hold, SpecArtist the *)
(* artist-only endpoints, SpecCollab the collaboration requests and       *)
(* SpecProfile the profile updates.                                        *)
(*                                                                         *)
(* Rows carry the columns the handlers below read or compare.  The clock  *)
(* counts minutes.  A commit is taken to fail only in the handlers that   *)
(* commit more than once, where a failure leaves a partial write behind.  *)
(***************************************************************************)
EXTENDS Integers, Sequences, FiniteSets, TLC

\* ------------------------------------------------------------------ bounds
\* Number of distinct email addresses clients register with.
NumEmails == 2

\* Number of tokens that clients keep.
MaxTokens == 1

\* Number of ticks of the clock.
MaxTicks == 2

\* Number of collaboration requests that are sent.
MaxCollabs == 2

\* Number of music tracks that are uploaded.
MaxTracks == 1

\* ------------------------------------------------------------ input values
EmailPool == <<"a@x", "b@x", "c@x", "d@x">>

\* Addresses accepted by the EmailStr field of UserCreate / ArtistCreate.
Emails == {EmailPool[i] : i \in 1..NumEmails}

\* username is a plain str field: any string is accepted, also one that has
\* the shape of an email address.
Usernames == {"u1", "a@x"}

\* Passwords handed to register and login: one of 7 characters, two of 8.
Passwords == {"short77", "longpw88", "otherpw9"}

\* Identifiers typed into the login form.
Identifiers == Emails \cup Usernames \cup {"nobody"}

UserRole == {"user", "artist", "promoter", "venue"}

\* Request handlers: two requests can be in flight at the same time.
Procs == {1, 2}

\* The handler used when requests are served one at a time.
SeqProcs == {1}

\* ------------------------------------------------------------------- state
VARIABLES
    users,      \* table users: sequence of rows, users[i].id = i
    profiles,   \* table artist_profiles: set of rows
    collabs,    \* table collaborations: sequence of rows, collabs[i].id = i
    tracks,     \* table music_tracks: sequence of rows, tracks[i].id = i
    now,        \* the server clock, in minutes
    tokens,     \* the bearer tokens that clients have kept
    pc,         \* pc[p]: position of handler p
    req,        \* req[p]: the request handler p is serving / served last
    resp,       \* resp[p]: the response of handler p to req[p]
    new_user,   \* new_user[p]: id of the row handler p committed (0: none)
    current_user, \* current_user[p]: the row handler p loaded for its token
    loaded      \* loaded[p]: the ORM object of handler p's session, with the
                \* column values it had when it was loaded (None: no object)

vars == <<users, profiles, collabs, tracks, now, tokens, pc, req, resp,
          new_user, current_user, loaded>>

\* -------------------------------------------------------------- credentials
\* bcrypt.hashpw: the salt is embedded in the output next to the digest of
\* (salt, password).
hashpw(password, salt) == [salt |-> salt, digest |-> <<salt, password>>]

\* bcrypt.gensalt(): 16 random bytes, a value that no stored hash contains.
gensalt(us) == Len(us) + 1

\* get_password_hash hashes with a salt drawn by the call.
get_password_hash(password, salt) == hashpw(password, salt)

\* bcrypt.checkpw re-hashes the candidate with the salt of the stored hash.
verify_password(plain_password, hashed_password) ==
    hashpw(plain_password, hashed_password.salt) = hashed_password

\* ------------------------------------------------------------------ tokens
\* Python's None: an Optional value is None or the one-element tuple <<v>>.
None == <<>>

\* settings.JWT_ACCESS_TOKEN_EXPIRE_MINUTES
ACCESS_TOKEN_EXPIRE_MINUTES == 30

\* settings.JWT_SECRET_KEY
SECRET_KEY == "your-secret-key-here"

\* timedelta(minutes=m), passed as an Optional[timedelta].
timedelta(minutes) == <<minutes>>

\* create_access_token(data, expires_delta) called when the clock shows
\* utcnow.  `if expires_delta:` takes the else branch for None and for
\* timedelta(0), which is falsy.  The token is the claim set together with
\* the key whose signature it carries.
create_access_token(data, expires_delta, utcnow) ==
    LET expire == IF expires_delta # None /\ expires_delta[1] # 0
                  THEN utcnow + expires_delta[1]
                  ELSE utcnow + ACCESS_TOKEN_EXPIRE_MINUTES
    IN  [claims |-> ("exp" :> expire) @@ data, key |-> SECRET_KEY]

\* No token: the field is absent from the message.
NoToken == [claims |-> <<>>, key |-> ""]

\* A bearer string that is not a token signed with SECRET_KEY.
InvalidToken == [claims |-> <<>>, key |-> "invalid-token"]

\* A decoder for which a token has expired as soon as the clock shows its
\* exp.
jwt_decode_expired_at_exp(token, key, utcnow) ==
    IF token.key # key
    THEN [error |-> "JWTError", payload |-> <<>>]
    ELSE IF "exp" \in DOMAIN token.claims /\ token.claims.exp <= utcnow
    THEN [error |-> "ExpiredSignatureError", payload |-> <<>>]
    ELSE [error |-> "", payload |-> token.claims]

\* jwt.decode(token, key, algorithms=[ALGORITHM]) when the clock shows
\* utcnow: the signature is verified, then the exp claim (expired when
\* exp < now).  ExpiredSignatureError is a subclass of JWTError.
jwt_decode(token, key, utcnow) ==
    IF token.key # key
    THEN [error |-> "JWTError", payload |-> <<>>]
    ELSE IF "exp" \in DOMAIN token.claims /\ token.claims.exp < utcnow
    THEN [error |-> "ExpiredSignatureError", payload |-> <<>>]
    ELSE [error |-> "", payload |-> token.claims]

\* Token Service verify: the claims of a token signed by the server that has
\* not expired.
decode_access_token(token, utcnow) == jwt_decode(token, SECRET_KEY, utcnow)

\* payload.get(key)
payload_get(payload, key) ==
    IF key \in DOMAIN payload THEN <<payload[key]>> ELSE None

\* --------------------------------------------------------------- responses
\* The body of a request or of a response that has none.
NoBody == [none |-> TRUE]

NoRequest ==
    [op |-> "none", email |-> "", username |-> "", password |-> "", role |-> "",
     display_name |-> "", token |-> NoToken, body |-> NoBody]

\* UserResponse.model_validate(user): the fields of the row that are sent.
UserResponse(u) ==
    [id |-> u.id, email |-> u.email, username |-> u.username, role |-> u.role,
     display_name |-> u.display_name, is_active |-> u.is_active]

NoUser ==
    [id |-> 0, email |-> "", username |-> "", role |-> "", display_name |-> "",
     is_active |-> FALSE]

\* No row of users: the query returned None.
NoRow ==
    [id |-> 0, email |-> "", username |-> "", password_hash |-> hashpw("", 0),
     role |-> "", display_name |-> "", is_active |-> FALSE]

Response(status, detail, exc, user, token) ==
    [status |-> status, detail |-> detail, exc |-> exc, user |-> user,
     access_token |-> token, refresh_token |-> NoToken, body |-> NoBody]

NoResponse == Response(0, "", "", NoUser, NoToken)

EmailRegistered == Response(400, "Email already registered", "", NoUser, NoToken)

UsernameTaken == Response(400, "Username already taken", "", NoUser, NoToken)

WeakPassword == Response(422, "Password must be at least 8 characters long", "", NoUser, NoToken)

\* An exception that leaves the handler becomes the framework's 500 reply.
ServerError(exc) == Response(500, "Internal Server Error", exc, NoUser, NoToken)

\* The answer of a registration: access_token = create_access_token(data),
\* refresh_token = create_access_token(data, expires_delta=None).
Created(u) ==
    [Response(201, "", "", UserResponse(u),
              create_access_token([sub |-> u.username], None, now))
        EXCEPT !.refresh_token = create_access_token([sub |-> u.username], None, now)]

InvalidCredentials == Response(401, "Incorrect username/email or password", "", NoUser, NoToken)

InactiveUser == Response(400, "Inactive user", "", NoUser, NoToken)

LoggedIn(u) ==
    Response(200, "", "", UserResponse(u),
             create_access_token([sub |-> u.username], None, now))

\* ------------------------------------------------------------------ queries
Rows(us) == {us[i] : i \in DOMAIN us}

\* db.query(User).filter(User.email == email).first() is not None
email_exists(us, email) == \E u \in Rows(us) : u.email = email

\* db.query(User).filter(User.username == username).first() is not None
username_exists(us, username) == \E u \in Rows(us) : u.username = username

\* users.username declared without unique=True.
unique_violation_email_only(us, row) ==
    \E u \in Rows(us) : u.email = row.email

\* users.email and users.username declared without unique=True.
unique_violation_none(us, row) == FALSE

\* The unique indexes of users.email and users.username reject the insert.
unique_violation(us, row) ==
    \/ \E u \in Rows(us) : u.email = row.email
    \/ \E u \in Rows(us) : u.username = row.username

\* artist_profiles.user_id declared without unique=True.
profile_unique_violation_none(ps, user_id) == FALSE

\* The unique index of artist_profiles.user_id rejects the insert.
profile_unique_violation(ps, user_id) == \E pr \in ps : pr.user_id = user_id

\* Rows selected by (User.username == identifier) | (User.email == identifier).
login_matches(us, identifier) ==
    {u \in Rows(us) : u.username = identifier \/ u.email = identifier}

Finish(p, r) ==
    /\ pc' = [pc EXCEPT ![p] = "ready"]
    /\ resp' = [resp EXCEPT ![p] = r]

Goto(p, label) ==
    /\ pc' = [pc EXCEPT ![p] = label]
    /\ resp' = [resp EXCEPT ![p] = NoResponse]

\* ------------------------------------------------------------ registration
\* A registration that starts with the username lookup, without looking
\* the email up.
RegisterCheckEmail_skipped(p, data) ==
    /\ pc[p] = "ready"
    /\ req' = [req EXCEPT ![p] = data]
    /\ new_user' = [new_user EXCEPT ![p] = 0]
    /\ Goto(p, "check_username")
    /\ UNCHANGED <<users, profiles>>
    /\ UNCHANGED <<collabs, tracks, now, tokens, current_user, loaded>>

\* First round trip of a registration: the email lookup.
RegisterCheckEmail(p, data) ==
    /\ pc[p] = "ready"
    /\ req' = [req EXCEPT ![p] = data]
    /\ new_user' = [new_user EXCEPT ![p] = 0]
    /\ IF email_exists(users, data.email)
       THEN Finish(p, EmailRegistered)
       ELSE Goto(p, "check_username")
    /\ UNCHANGED <<users, profiles>>
    /\ UNCHANGED <<collabs, tracks, now, tokens, current_user, loaded>>

\* A handler that inserts the account before it tests the length of the
\* password.
RegisterCheckUsername_insert_first(p) ==
    /\ pc[p] = "check_username"
    /\ IF username_exists(users, req[p].username)
       THEN /\ Finish(p, UsernameTaken)
            /\ UNCHANGED <<users, new_user>>
       ELSE /\ users' = Append(users,
                               [id |-> Len(users) + 1,
                                email |-> req[p].email,
                                username |-> req[p].username,
                                password_hash |-> get_password_hash(req[p].password, gensalt(users)),
                                role |-> req[p].role,
                                display_name |-> req[p].display_name,
                                is_active |-> TRUE])
            /\ new_user' = [new_user EXCEPT ![p] = Len(users) + 1]
            /\ IF Len(req[p].password) < 8
               THEN Finish(p, WeakPassword)
               ELSE Finish(p, Created(users'[Len(users) + 1]))
    /\ UNCHANGED <<profiles, req>>
    /\ UNCHANGED <<collabs, tracks, now, tokens, current_user, loaded>>

\* Second round trip: the username lookup, then the password length test.
RegisterCheckUsername(p) ==
    /\ pc[p] = "check_username"
    /\ IF username_exists(users, req[p].username)
       THEN Finish(p, UsernameTaken)
       ELSE IF Len(req[p].password) < 8
            THEN Finish(p, WeakPassword)
            ELSE Goto(p, "commit_user")
    /\ UNCHANGED <<users, profiles, req, new_user>>
    /\ UNCHANGED <<collabs, tracks, now, tokens, current_user, loaded>>

\* Third round trip: db.add(new_user); db.commit(); db.refresh(new_user).
RegisterCommitUser(p) ==
    /\ pc[p] = "commit_user"
    /\ \E db_ok \in BOOLEAN :
        LET salt == gensalt(users)
            row == [id |-> Len(users) + 1,
                    email |-> req[p].email,
                    username |-> req[p].username,
                    password_hash |-> get_password_hash(req[p].password, salt),
                    role |-> req[p].role,
                    display_name |-> req[p].display_name,
                    is_active |-> TRUE]
        IN  IF unique_violation(users, row)
            THEN /\ Finish(p, ServerError("IntegrityError"))
                 /\ UNCHANGED <<users, new_user>>
            ELSE IF ~db_ok
            THEN /\ Finish(p, ServerError("OperationalError"))
                 /\ UNCHANGED <<users, new_user>>
            ELSE /\ users' = Append(users, row)
                 /\ new_user' = [new_user EXCEPT ![p] = row.id]
                 /\ Goto(p, "refresh_new_user")
    /\ UNCHANGED <<profiles, req>>
    /\ UNCHANGED <<collabs, tracks, now, tokens, current_user, loaded>>

\* db.refresh(new_user): the row is read again.  A registration of another
\* role is answered with these values; for an artist the commit of the
\* profile expires them.
RegisterRefreshUser(p) ==
    /\ pc[p] = "refresh_new_user"
    /\ IF req[p].role = "artist"
       THEN Goto(p, "commit_profile")
       ELSE Finish(p, Created(users[new_user[p]]))
    /\ UNCHANGED <<users, profiles, req, new_user>>
    /\ UNCHANGED <<collabs, tracks, now, tokens, current_user, loaded>>

\* A row of artist_profiles.
ArtistProfile(user_id, bio, genres, instruments, location, website) ==
    [user_id |-> user_id, bio |-> bio, genres |-> genres,
     instruments |-> instruments, location |-> location, website |-> website]

\* The profile fields of a registration: POST /artists/register takes bio,
\* genres and instruments from the request, POST /auth/register sets every
\* field to None.
NoProfileFields == [bio |-> None, genres |-> None, instruments |-> None]

\* db.add(artist_profile); db.commit() (artists only).
RegisterCommitProfile(p) ==
    /\ pc[p] = "commit_profile"
    /\ \E db_ok \in BOOLEAN :
        LET b == IF req[p].op = "register_artist" THEN req[p].body ELSE NoProfileFields
        IN  IF profile_unique_violation(profiles, new_user[p])
            THEN /\ Finish(p, ServerError("IntegrityError"))
                 /\ UNCHANGED profiles
            ELSE IF ~db_ok
            THEN /\ Finish(p, ServerError("OperationalError"))
                 /\ UNCHANGED profiles
            ELSE /\ profiles' = profiles \cup
                        {ArtistProfile(new_user[p], b.bio, b.genres, b.instruments,
                                       None, None)}
                 /\ Goto(p, "refresh_new_profile")
    /\ UNCHANGED <<users, req, new_user>>
    /\ UNCHANGED <<collabs, tracks, now, tokens, current_user, loaded>>

\* db.refresh(artist_profile): the profile is read again and keeps these
\* values for the answer; new_user stays expired by the second commit.
RegisterRefreshProfile(p) ==
    /\ pc[p] = "refresh_new_profile"
    /\ \E pr \in {row \in profiles : row.user_id = new_user[p]} :
          loaded' = [loaded EXCEPT ![p] = pr]
    /\ Goto(p, "reload_new_user")
    /\ UNCHANGED <<users, profiles, req, new_user>>
    /\ UNCHANGED <<collabs, tracks, now, tokens, current_user>>

\* new_user.username, read for the tokens, loads the expired account again:
\* the answer carries the account as it is stored now.
RegisterReloadUser(p) ==
    /\ pc[p] = "reload_new_user"
    /\ Finish(p, [Created(users[new_user[p]]) EXCEPT !.body = loaded[p]])
    /\ loaded' = [loaded EXCEPT ![p] = None]
    /\ UNCHANGED <<users, profiles, req, new_user>>
    /\ UNCHANGED <<collabs, tracks, now, tokens, current_user>>

\* EmailStr: the validated address keeps the local part as it was typed and
\* has the domain in lower case.
EmailStr(address) ==
    CASE address = "a@X" -> "a@x"
      [] address = "A@X" -> "A@x"
      [] OTHER -> address

UserCreate ==
    [op : {"register_user"}, email : Emails, username : Usernames,
     password : Passwords, role : UserRole, display_name : {"name"},
     token : {NoToken}, body : {NoBody}]

\* ArtistCreate: the role is not a field of the schema, the handler sets it
\* to artist; bio, genres and instruments are optional and are all absent
\* or all present in the requests of the model.
ArtistCreate ==
    [op : {"register_artist"}, email : Emails, username : Usernames,
     password : Passwords, role : {"artist"}, display_name : {"name"},
     token : {NoToken},
     body : {NoProfileFields,
             [bio |-> <<"text">>, genres |-> << <<"item">> >>,
              instruments |-> << <<"item">> >>]}]

\* POST /auth/register
register_user(p, inputs) ==
    \/ \E data \in inputs : RegisterCheckEmail(p, data)
    \/ /\ req[p].op = "register_user"
       /\ \/ RegisterCheckUsername(p)
          \/ RegisterCommitUser(p)
          \/ RegisterRefreshUser(p)
          \/ RegisterCommitProfile(p)
          \/ RegisterRefreshProfile(p)
          \/ RegisterReloadUser(p)

\* POST /artists/register
register_artist(p, inputs) ==
    \/ \E data \in inputs : RegisterCheckEmail(p, data)
    \/ /\ req[p].op = "register_artist"
       /\ \/ RegisterCheckUsername(p)
          \/ RegisterCommitUser(p)
          \/ RegisterRefreshUser(p)
          \/ RegisterCommitProfile(p)
          \/ RegisterRefreshProfile(p)
          \/ RegisterReloadUser(p)

\* -------------------------------------------------------------------- login
OAuth2PasswordRequestForm ==
    [op : {"login"}, email : {""}, username : Identifiers,
     password : Passwords, role : {""}, display_name : {""},
     token : {NoToken}, body : {NoBody}]

\* A login that tells an unknown identifier from a wrong password.
login_user_not_found(p, inputs) ==
    /\ pc[p] = "ready"
    /\ \E form_data \in inputs :
        /\ req' = [req EXCEPT ![p] = form_data]
        /\ LET found == login_matches(users, form_data.username)
           IN  IF found = {}
               THEN Finish(p, Response(404, "User not found", "", NoUser, NoToken))
               ELSE \E user \in found :
                      IF ~verify_password(form_data.password, user.password_hash)
                      THEN Finish(p, InvalidCredentials)
                      ELSE IF ~user.is_active
                      THEN Finish(p, InactiveUser)
                      ELSE Finish(p, LoggedIn(user))
    /\ new_user' = [new_user EXCEPT ![p] = 0]
    /\ UNCHANGED <<users, profiles>>
    /\ UNCHANGED <<collabs, tracks, now, tokens, current_user, loaded>>

\* A login that tests the active flag before it verifies the password.
login_user_active_first(p, inputs) ==
    /\ pc[p] = "ready"
    /\ \E form_data \in inputs :
        /\ req' = [req EXCEPT ![p] = form_data]
        /\ LET found == login_matches(users, form_data.username)
           IN  IF found = {}
               THEN Finish(p, InvalidCredentials)
               ELSE \E user \in found :
                      IF ~user.is_active
                      THEN Finish(p, InactiveUser)
                      ELSE IF ~verify_password(form_data.password, user.password_hash)
                      THEN Finish(p, InvalidCredentials)
                      ELSE Finish(p, LoggedIn(user))
    /\ new_user' = [new_user EXCEPT ![p] = 0]
    /\ UNCHANGED <<users, profiles>>
    /\ UNCHANGED <<collabs, tracks, now, tokens, current_user, loaded>>

\* POST /auth/login: one query, then checks on the loaded row.  The query has
\* no ORDER BY: which of several matching rows first() returns is up to the
\* database (scan order, index order), so it is any one of them.
login_user(p, inputs) ==
    /\ pc[p] = "ready"
    /\ \E form_data \in inputs :
        /\ req' = [req EXCEPT ![p] = form_data]
        /\ LET found == login_matches(users, form_data.username)
           IN  IF found = {}
               THEN Finish(p, InvalidCredentials)
               ELSE \E user \in found :
                      IF ~verify_password(form_data.password, user.password_hash)
                      THEN Finish(p, InvalidCredentials)
                      ELSE IF ~user.is_active
                      THEN Finish(p, InactiveUser)
                      ELSE Finish(p, LoggedIn(user))
    /\ new_user' = [new_user EXCEPT ![p] = 0]
    /\ UNCHANGED <<users, profiles>>
    /\ UNCHANGED <<collabs, tracks, now, tokens, current_user, loaded>>

\* ------------------------------------------------------------- deactivation
\* Soft deactivation: the active flag of a row is cleared in the store.
Deactivate(id) ==
    /\ id \in DOMAIN users
    /\ users[id].is_active
    /\ users' = [users EXCEPT ![id].is_active = FALSE]
    /\ UNCHANGED <<profiles, pc, req, resp, new_user>>
    /\ UNCHANGED <<collabs, tracks, now, tokens, current_user, loaded>>

\* ----------------------------------------------------- token authentication
CredentialsException ==
    Response(401, "Could not validate credentials", "", NoUser, NoToken)

UserNotFound == Response(401, "User not found", "", NoUser, NoToken)

AccountDeactivated == Response(401, "Account is deactivated", "", NoUser, NoToken)

ArtistsOnly ==
    Response(403, "Only artists can access this endpoint", "", NoUser, NoToken)

\* Rows selected by User.username == username, an Optional[str].
by_username(us, username) == {u \in Rows(us) : <<u.username>> = username}

\* An authentication that looks the subject up like a login identifier, as
\* a username or an email address.
get_current_user_by_identifier(token, us, utcnow) ==
    LET decoded == decode_access_token(token, utcnow)
        username == payload_get(decoded.payload, "sub")
        found == IF username = None THEN {} ELSE login_matches(us, username[1])
    IN  IF decoded.error # "" \/ username = None \/ found = {}
        THEN {[user |-> NoRow, error |-> CredentialsException]}
        ELSE {[user |-> u, error |-> NoResponse] : u \in found}

\* get_current_user(token, db): the outcomes of the call, each the loaded
\* row or the exception raised.
get_current_user(token, us, utcnow) ==
    LET decoded == decode_access_token(token, utcnow)
        username == payload_get(decoded.payload, "sub")
        found == by_username(us, username)
    IN  IF decoded.error # "" \/ username = None \/ found = {}
        THEN {[user |-> NoRow, error |-> CredentialsException]}
        ELSE {[user |-> u, error |-> NoResponse] : u \in found}

\* _get_authenticated_artist(token, db): the outcomes of the call.
get_authenticated_artist(token, us, utcnow) ==
    LET decoded == jwt_decode(token, SECRET_KEY, utcnow)
        username == payload_get(decoded.payload, "sub")
        found == by_username(us, username)
    IN  IF decoded.error # "" \/ username = None
        THEN {[user |-> NoRow, error |-> CredentialsException]}
        ELSE IF found = {}
        THEN {[user |-> NoRow, error |-> UserNotFound]}
        ELSE {IF ~u.is_active
              THEN [user |-> NoRow, error |-> AccountDeactivated]
              ELSE IF u.role # "artist"
              THEN [user |-> NoRow, error |-> ArtistsOnly]
              ELSE [user |-> u, error |-> NoResponse] : u \in found}

\* A request that carries a bearer token.
Request(op, token, body) ==
    [NoRequest EXCEPT !.op = op, !.token = token, !.body = body]

\* The handler returns: its local variable user goes out of scope.
Return(p, r) ==
    /\ Finish(p, r)
    /\ current_user' = [current_user EXCEPT ![p] = NoRow]
    /\ loaded' = [loaded EXCEPT ![p] = None]

\* db.commit() of a session that holds a changed object: the UPDATE sets the
\* columns whose value on the object differs from the value the object was
\* loaded with, and leaves the other columns of the stored row alone.
flush(row, before, after) ==
    [f \in DOMAIN row |-> IF after[f] # before[f] THEN after[f] ELSE row[f]]

\* The last round trip of a handler, a db.refresh(obj) or a query: the
\* answer is built from the rows as they are stored at that moment.
LastRoundTrip(p, label, r) ==
    /\ pc[p] = label
    /\ Return(p, r)
    /\ UNCHANGED <<users, profiles, collabs, tracks, now, tokens, req, new_user>>

\* The columns of a profile that GET /auth/me merges into its answer.
ProfileData(pr) ==
    [bio |-> pr.bio, genres |-> pr.genres, instruments |-> pr.instruments,
     location |-> pr.location, website |-> pr.website]

\* A profile lookup without the filter on user_id.
profile_of_any(ps, user_id) == ps

\* Rows selected by ArtistProfile.user_id == user_id.
profile_of(ps, user_id) == {pr \in ps : pr.user_id = user_id}

\* GET /auth/me, first round trip: get_current_user(token, db).
MeAuthenticate(p, token) ==
    /\ pc[p] = "ready"
    /\ req' = [req EXCEPT ![p] = Request("get_current_user_endpoint", token, NoBody)]
    /\ new_user' = [new_user EXCEPT ![p] = 0]
    /\ \E out \in get_current_user(token, users, now) :
          IF out.user = NoRow
          THEN Return(p, out.error)
          ELSE IF out.user.role = "artist"
          THEN /\ current_user' = [current_user EXCEPT ![p] = out.user]
               /\ UNCHANGED loaded
               /\ Goto(p, "query_profile")
          ELSE Return(p, Response(200, "", "", UserResponse(out.user), NoToken))
    /\ UNCHANGED <<users, profiles, collabs, tracks, now, tokens>>

\* GET /auth/me, second round trip (artists only): the profile lookup.
MeProfile(p) ==
    /\ pc[p] = "query_profile"
    /\ LET found == profile_of(profiles, current_user[p].id)
           me == Response(200, "", "", UserResponse(current_user[p]), NoToken)
       IN  IF found = {}
           THEN Return(p, me)
           ELSE \E pr \in found : Return(p, [me EXCEPT !.body = ProfileData(pr)])
    /\ UNCHANGED <<users, profiles, collabs, tracks, now, tokens, req, new_user>>

\* GET /auth/me
get_current_user_endpoint(p, inputs) ==
    \/ \E token \in inputs : MeAuthenticate(p, token)
    \/ /\ req[p].op = "get_current_user_endpoint"
       /\ MeProfile(p)

\* POST /auth/logout: the router has no such route and the server keeps no
\* record of tokens; the request is answered without touching any state.
logout(p, inputs) ==
    /\ pc[p] = "ready"
    /\ \E token \in inputs :
          req' = [req EXCEPT ![p] = Request("logout", token, NoBody)]
    /\ new_user' = [new_user EXCEPT ![p] = 0]
    /\ Return(p, Response(404, "Not Found", "", NoUser, NoToken))
    /\ UNCHANGED <<users, profiles, collabs, tracks, now, tokens>>

\* ---------------------------------------------------- artist-only endpoints
\* A successful answer that carries a body.
Answer(status, body) ==
    [Response(status, "", "", NoUser, NoToken) EXCEPT !.body = body]

\* First round trip of an artist-only handler: _get_authenticated_artist.
AuthenticateArtist(p, request, label) ==
    /\ pc[p] = "ready"
    /\ req' = [req EXCEPT ![p] = request]
    /\ new_user' = [new_user EXCEPT ![p] = 0]
    /\ \E out \in get_authenticated_artist(request.token, users, now) :
          IF out.user = NoRow
          THEN Return(p, out.error)
          ELSE /\ current_user' = [current_user EXCEPT ![p] = out.user]
               /\ UNCHANGED loaded
               /\ Goto(p, label)
    /\ UNCHANGED <<users, profiles, collabs, tracks, now, tokens>>

ProfileNotFound == Response(404, "Artist profile not found", "", NoUser, NoToken)

\* GET /artists/me, second round trip: the profile lookup.
GetProfileQuery(p) ==
    /\ pc[p] = "query_profile"
    /\ LET found == profile_of(profiles, current_user[p].id)
       IN  IF found = {}
           THEN Return(p, ProfileNotFound)
           ELSE \E pr \in found : Return(p, Answer(200, pr))
    /\ UNCHANGED <<users, profiles, collabs, tracks, now, tokens, req, new_user>>

\* GET /artists/me
get_artist_profile(p, inputs) ==
    \/ \E token \in inputs :
          AuthenticateArtist(p, Request("get_artist_profile", token, NoBody),
                             "query_profile")
    \/ /\ req[p].op = "get_artist_profile"
       /\ GetProfileQuery(p)

\* The values of an optional text field and of an optional list field.
OptionalStr == {None, <<"text">>}

OptionalList == {None, << <<"item">> >>}

ArtistUpdate ==
    [bio : OptionalStr, genres : OptionalList, instruments : OptionalList,
     location : OptionalStr, website : OptionalStr]

\* An update whose fields are all absent.
NoUpdate ==
    [bio |-> None, genres |-> None, instruments |-> None, location |-> None,
     website |-> None]

\* An update that assigns every field, also the fields that are None.
apply_update_all(pr, upd) ==
    [pr EXCEPT !.bio = upd.bio, !.genres = upd.genres,
               !.instruments = upd.instruments, !.location = upd.location,
               !.website = upd.website]

\* The assignments of a profile update: a field of the request that is not
\* None is assigned to the column, a field that is None is skipped.
apply_update(pr, upd) ==
    [pr EXCEPT !.bio = IF upd.bio # None THEN upd.bio ELSE @,
               !.genres = IF upd.genres # None THEN upd.genres ELSE @,
               !.instruments = IF upd.instruments # None THEN upd.instruments ELSE @,
               !.location = IF upd.location # None THEN upd.location ELSE @,
               !.website = IF upd.website # None THEN upd.website ELSE @]

\* PUT /artists/me, second round trip: the profile lookup.
UpdateProfileQuery(p) ==
    /\ pc[p] = "query_profile"
    /\ LET found == profile_of(profiles, current_user[p].id)
       IN  IF found = {}
           THEN Return(p, ProfileNotFound)
           ELSE \E pr \in found :
                   /\ loaded' = [loaded EXCEPT ![p] = pr]
                   /\ Goto(p, "commit_update")
                   /\ UNCHANGED current_user
    /\ UNCHANGED <<users, profiles, collabs, tracks, now, tokens, req, new_user>>

\* PUT /artists/me, third round trip: the fields of the request are assigned
\* to the loaded object, db.commit() writes the columns that changed.
UpdateProfileCommit(p) ==
    /\ pc[p] = "commit_update"
    /\ LET changed == apply_update(loaded[p], req[p].body)
       IN  profiles' = {IF pr.user_id = loaded[p].user_id
                        THEN flush(pr, loaded[p], changed)
                        ELSE pr : pr \in profiles}
    /\ Goto(p, "refresh_profile")
    /\ UNCHANGED <<users, collabs, tracks, now, tokens, req, new_user,
                   current_user, loaded>>

\* PUT /artists/me; the fourth round trip is db.refresh(artist_profile).
update_artist_profile(p, inputs, updates) ==
    \/ \E token \in inputs, profile_update \in updates :
          AuthenticateArtist(p, Request("update_artist_profile", token, profile_update),
                             "query_profile")
    \/ /\ req[p].op = "update_artist_profile"
       /\ \/ UpdateProfileQuery(p)
          \/ UpdateProfileCommit(p)
          \/ \E pr \in profile_of(profiles, current_user[p].id) :
                LastRoundTrip(p, "refresh_profile", Answer(200, pr))

\* ---------------------------------------------------- profile update by id
\* str(current_user.id): the text of an id.
str(n) == <<n>>

\* get_current_user of app.core.security, the dependency of PUT /users/{id}:
\* the token is verified and its subject is resolved to an account.
security_get_current_user(token, us, utcnow) == get_current_user(token, us, utcnow)

OwnProfileOnly ==
    Response(403, "You can only update your own profile", "", NoUser, NoToken)

\* The requests of PUT /users/{user_id}: the path parameter, the display
\* name and the profile fields of UserProfileUpdate.
UserProfileUpdate(ids, names, updates) ==
    {[user_id |-> id, display_name |-> name] @@ upd :
        id \in ids, name \in names, upd \in updates}

\* A statement that writes the name into the username column.
set_display_name_as_username(us, id, display_name) ==
    IF display_name # None
    THEN [us EXCEPT ![id].username = display_name[1]]
    ELSE us

\* db.query(User).filter(User.id == current_user.id).update(user_update_data)
\* with display_name in user_update_data when the request carries one.
set_display_name(us, id, display_name) ==
    IF display_name # None
    THEN [us EXCEPT ![id].display_name = display_name[1]]
    ELSE us

\* The answer of PUT /users/{user_id}.
UserProfileResponse(u, data) ==
    [Response(200, "", "", UserResponse(u), NoToken) EXCEPT !.body = data]

\* except Exception as e: db.rollback(), then 500 with the text of the
\* exception after the prefix; the text stands for str(e) of the driver.
ProfileUpdateFailed(exc) ==
    Response(500, "Failed to update profile: " \o exc, exc, NoUser, NoToken)

\* PUT /users/{user_id}, first round trip: the dependency get_current_user,
\* then the ownership test.
UpdateUserAuthenticate(p, request) ==
    /\ pc[p] = "ready"
    /\ req' = [req EXCEPT ![p] = request]
    /\ new_user' = [new_user EXCEPT ![p] = 0]
    /\ \E out \in security_get_current_user(request.token, users, now) :
          IF out.user = NoRow
          THEN Return(p, out.error)
          ELSE IF str(out.user.id) # request.body.user_id
          THEN Return(p, OwnProfileOnly)
          ELSE /\ current_user' = [current_user EXCEPT ![p] = out.user]
               /\ UNCHANGED loaded
               /\ Goto(p, IF request.body.display_name # None
                          THEN "update_user_row"
                          ELSE IF out.user.role = "artist"
                          THEN "query_own_profile" ELSE "commit_user_update")
    /\ UNCHANGED <<users, profiles, collabs, tracks, now, tokens>>

\* The UPDATE of users when the request carries a display name: the
\* statement runs in the transaction of the handler, its effect is seen by
\* others at the commit, and it waits while another handler has updated the
\* row in a transaction that has neither committed nor rolled back.
UpdateUserRow(p) ==
    /\ pc[p] = "update_user_row"
    /\ ~ \E q \in Procs :
            /\ req[q].op = "update_user"
            /\ req[q].body.display_name # None
            /\ current_user[q].id = current_user[p].id
            /\ pc[q] \in {"query_own_profile", "commit_user_update",
                           "commit_profile_create", "commit_profile_update"}
    /\ Goto(p, IF current_user[p].role = "artist"
               THEN "query_own_profile" ELSE "commit_user_update")
    /\ UNCHANGED <<users, profiles, collabs, tracks, now, tokens, req, new_user,
                   current_user, loaded>>

\* The profile lookup (artists only).
UpdateUserQuery(p) ==
    /\ pc[p] = "query_own_profile"
    /\ LET found == profile_of(profiles, current_user[p].id)
       IN  IF found = {}
           THEN /\ Goto(p, "commit_profile_create")
                /\ UNCHANGED loaded
           ELSE \E pr \in found :
                   /\ loaded' = [loaded EXCEPT ![p] = pr]
                   /\ Goto(p, "commit_profile_update")
    /\ UNCHANGED <<users, profiles, collabs, tracks, now, tokens, req, new_user,
                   current_user>>

\* The commit of an account that is no artist: no profile is read or
\* written.
UpdateUserCommitUser(p) ==
    /\ pc[p] = "commit_user_update"
    /\ users' = set_display_name(users, current_user[p].id, req[p].body.display_name)
    /\ Goto(p, "refresh_user")
    /\ UNCHANGED <<profiles, collabs, tracks, now, tokens, req, new_user,
                   current_user, loaded>>

\* The commit of an artist without a profile: the profile is created with
\* the fields of the request.
UpdateUserCreateProfile(p) ==
    /\ pc[p] = "commit_profile_create"
    /\ LET b == req[p].body
           row == ArtistProfile(current_user[p].id, b.bio, b.genres,
                                b.instruments, b.location, b.website)
       IN  IF profile_unique_violation(profiles, current_user[p].id)
           THEN /\ Return(p, ProfileUpdateFailed("IntegrityError"))
                /\ UNCHANGED <<users, profiles>>
           ELSE /\ users' = set_display_name(users, current_user[p].id, b.display_name)
                /\ profiles' = profiles \cup {row}
                /\ Goto(p, "refresh_user")
                /\ UNCHANGED <<current_user, loaded>>
    /\ UNCHANGED <<collabs, tracks, now, tokens, req, new_user>>

\* The commit of an artist with a profile: the fields of the request are
\* assigned to the loaded object and the columns that changed are written.
UpdateUserUpdateProfile(p) ==
    /\ pc[p] = "commit_profile_update"
    /\ LET changed == apply_update(loaded[p], req[p].body)
       IN  profiles' = {IF pr.user_id = loaded[p].user_id
                        THEN flush(pr, loaded[p], changed)
                        ELSE pr : pr \in profiles}
    /\ users' = set_display_name(users, current_user[p].id, req[p].body.display_name)
    /\ Goto(p, "refresh_user")
    /\ UNCHANGED <<collabs, tracks, now, tokens, req, new_user, current_user, loaded>>

\* db.refresh(current_user): the row of the account is read again; an
\* account that is no artist is answered from it.
UpdateUserRefresh(p) ==
    /\ pc[p] = "refresh_user"
    /\ IF current_user[p].role = "artist"
       THEN /\ current_user' = [current_user EXCEPT ![p] = users[current_user[p].id]]
            /\ UNCHANGED loaded
            /\ Goto(p, "refresh_own_profile")
       ELSE Return(p, UserProfileResponse(users[current_user[p].id], NoUpdate))
    /\ UNCHANGED <<users, profiles, collabs, tracks, now, tokens, req, new_user>>

\* PUT /users/{user_id}; the last round trip of an artist's request is
\* db.refresh(artist_profile).
update_user(p, inputs, updates) ==
    \/ \E token \in inputs, profile_data \in updates :
          UpdateUserAuthenticate(p, Request("update_user", token, profile_data))
    \/ /\ req[p].op = "update_user"
       /\ \/ UpdateUserRow(p)
          \/ UpdateUserQuery(p)
          \/ UpdateUserCommitUser(p)
          \/ UpdateUserCreateProfile(p)
          \/ UpdateUserUpdateProfile(p)
          \/ UpdateUserRefresh(p)
          \/ \E pr \in profile_of(profiles, current_user[p].id) :
                LastRoundTrip(p, "refresh_own_profile",
                        UserProfileResponse(current_user[p], ProfileData(pr)))

\* DELETE /users/{id}: the handler raises 501 before it reads or writes
\* anything; it takes no token.
delete_user(p, ids) ==
    /\ pc[p] = "ready"
    /\ \E user_id \in ids :
          req' = [req EXCEPT ![p] =
                     Request("delete_user", NoToken, [user_id |-> user_id])]
    /\ new_user' = [new_user EXCEPT ![p] = 0]
    /\ Return(p, Response(501, "User deletion not yet implemented", "", NoUser, NoToken))
    /\ UNCHANGED <<users, profiles, collabs, tracks, now, tokens>>

\* An uploaded file: the major part of its content type and its size in
\* bytes.
MAX_PICTURE_BYTES == 5 * 1024 * 1024

MAX_AUDIO_BYTES == 50 * 1024 * 1024

UploadFile(major, sizes) == [content_type : {major, "text"}, size : sizes]

InvalidFileType(detail) == Response(400, detail, "", NoUser, NoToken)

FileTooLarge(detail) == Response(400, detail, "", NoUser, NoToken)

\* POST /artists/me/profile-picture: the file is validated before the token
\* is looked at; the handler stores nothing.
upload_profile_picture(p, inputs, files) ==
    /\ pc[p] = "ready"
    /\ new_user' = [new_user EXCEPT ![p] = 0]
    /\ \E token \in inputs, profile_picture \in files :
          /\ req' = [req EXCEPT ![p] =
                        Request("upload_profile_picture", token, profile_picture)]
          /\ IF profile_picture.content_type # "image"
             THEN Return(p, InvalidFileType("Invalid file type. Only images are allowed."))
             ELSE IF profile_picture.size > MAX_PICTURE_BYTES
             THEN Return(p, FileTooLarge("File too large. Maximum size is 5MB."))
             ELSE \E out \in get_authenticated_artist(token, users, now) :
                     IF out.user = NoRow
                     THEN Return(p, out.error)
                     ELSE Return(p, Answer(200, [profile_picture_url |-> out.user.username]))
    /\ UNCHANGED <<users, profiles, collabs, tracks, now, tokens>>

\* ------------------------------------------------------------------- tracks
\* A row of music_tracks.
MusicTrack(id, artist_id, title, genre) ==
    [id |-> id, artist_id |-> artist_id, title |-> title, genre |-> genre]

\* The place of a row that was deleted: ids are not handed out again.
DeletedTrack(id) == MusicTrack(id, 0, "", None)

\* The answer of a handler that reads a track again with db.refresh: a row
\* that is gone raises InvalidRequestError.
RefreshedTrack(id, r) ==
    IF tracks[id] = DeletedTrack(id) THEN ServerError("InvalidRequestError") ELSE r

TrackNotFound == Response(404, "Track not found", "", NoUser, NoToken)

\* Rows selected by MusicTrack.id == track_id, MusicTrack.artist_id == user_id.
track_of(ts, track_id, user_id) ==
    {t \in Rows(ts) : t.id = track_id /\ t.artist_id = user_id}

\* POST /artists/me/tracks, first round trip: the file is validated, then the
\* token.
UploadTrackAuthenticate(p, token, track) ==
    /\ pc[p] = "ready"
    /\ new_user' = [new_user EXCEPT ![p] = 0]
    /\ req' = [req EXCEPT ![p] = Request("upload_music_track", token, track)]
    /\ IF track.audio_file.content_type # "audio"
       THEN Return(p, InvalidFileType("Invalid file type. Only audio files are allowed."))
       ELSE IF track.audio_file.size > MAX_AUDIO_BYTES
       THEN Return(p, FileTooLarge("File too large. Maximum size is 50MB."))
       ELSE \E out \in get_authenticated_artist(token, users, now) :
               IF out.user = NoRow
               THEN Return(p, out.error)
               ELSE /\ current_user' = [current_user EXCEPT ![p] = out.user]
                    /\ UNCHANGED loaded
                    /\ Goto(p, "commit_track")
    /\ UNCHANGED <<users, profiles, collabs, tracks, now, tokens>>

\* Second round trip: db.add(music_track); db.commit().  music_tracks.genre
\* is declared NOT NULL, the genre of the request is optional.
UploadTrackCommit(p) ==
    /\ pc[p] = "commit_track"
    /\ LET row == MusicTrack(Len(tracks) + 1, current_user[p].id,
                             req[p].body.title, req[p].body.genre)
       IN  IF row.genre = None
           THEN /\ Return(p, ServerError("IntegrityError"))
                /\ UNCHANGED tracks
           ELSE /\ tracks' = Append(tracks, row)
                /\ loaded' = [loaded EXCEPT ![p] = row]
                /\ Goto(p, "refresh_new_track")
                /\ UNCHANGED current_user
    /\ UNCHANGED <<users, profiles, collabs, now, tokens, req, new_user>>

\* POST /artists/me/tracks; the third round trip is db.refresh(music_track).
upload_music_track(p, inputs, uploads) ==
    \/ \E token \in inputs, track \in uploads : UploadTrackAuthenticate(p, token, track)
    \/ /\ req[p].op = "upload_music_track"
       /\ \/ UploadTrackCommit(p)
          \/ LastRoundTrip(p, "refresh_new_track",
                RefreshedTrack(loaded[p].id, Answer(201, tracks[loaded[p].id])))

\* The genres that POST /music/tracks accepts.
valid_genres ==
    {"rock", "pop", "jazz", "blues", "country", "electronic", "hip-hop",
     "classical", "folk", "metal", "punk", "reggae", "r&b", "soul",
     "alternative", "indie"}

\* POST /music/tracks, first round trip: the file and the genre are
\* validated, then get_current_user(token, db) loads the account; neither
\* its role nor its active flag is looked at.
MusicUploadAuthenticate(p, token, track) ==
    /\ pc[p] = "ready"
    /\ new_user' = [new_user EXCEPT ![p] = 0]
    /\ req' = [req EXCEPT ![p] = Request("music_upload_music_track", token, track)]
    /\ IF track.audio_file.content_type # "audio"
       THEN Return(p, InvalidFileType("Invalid file type. Only audio files are allowed."))
       ELSE IF track.audio_file.size > 10 * 1024 * 1024
       THEN Return(p, FileTooLarge("File too large. Maximum size is 10MB."))
       ELSE IF track.genre # None /\ track.genre[1] \notin valid_genres
       THEN Return(p, Response(422,
                "Invalid genre. Must be one of: rock, pop, jazz, blues, country, "
                \o "electronic, hip-hop, classical, folk, metal, punk, reggae, "
                \o "r&b, soul, alternative, indie", "", NoUser, NoToken))
       ELSE \E out \in get_current_user(token, users, now) :
               IF out.user = NoRow
               THEN Return(p, out.error)
               ELSE /\ current_user' = [current_user EXCEPT ![p] = out.user]
                    /\ UNCHANGED loaded
                    /\ Goto(p, "commit_track")
    /\ UNCHANGED <<users, profiles, collabs, tracks, now, tokens>>

\* POST /music/tracks; the commit is that of POST /artists/me/tracks.  The
\* third round trip is db.refresh(music_track), which keeps the track for
\* the answer; the fourth is the reload of the account, expired by the
\* commit, when user.username is read for the answer.
music_upload_music_track(p, inputs, uploads) ==
    \/ \E token \in inputs, track \in uploads : MusicUploadAuthenticate(p, token, track)
    \/ /\ req[p].op = "music_upload_music_track"
       /\ \/ UploadTrackCommit(p)
          \/ /\ pc[p] = "refresh_new_track"
             /\ IF tracks[loaded[p].id] = DeletedTrack(loaded[p].id)
                THEN Return(p, ServerError("InvalidRequestError"))
                ELSE /\ loaded' = [loaded EXCEPT ![p] = tracks[loaded[p].id]]
                     /\ Goto(p, "reload_user")
                     /\ UNCHANGED current_user
             /\ UNCHANGED <<users, profiles, collabs, tracks, now, tokens, req,
                            new_user>>
          \/ LastRoundTrip(p, "reload_user", Answer(201, loaded[p]))

\* GET /artists/me/tracks; the second round trip is the lookup of the
\* artist's tracks.
get_artist_tracks(p, inputs) ==
    \/ \E token \in inputs :
          AuthenticateArtist(p, Request("get_artist_tracks", token, NoBody),
                             "query_tracks")
    \/ /\ req[p].op = "get_artist_tracks"
       /\ LastRoundTrip(p, "query_tracks",
                Answer(200, [tracks |-> {t \in Rows(tracks) :
                                            t.artist_id = current_user[p].id}]))

\* Second round trip of an update or a delete: the track lookup, which
\* selects the track only if the authenticated artist owns it.
TrackQuery(p, label) ==
    /\ pc[p] = "query_track"
    /\ IF track_of(tracks, req[p].body.track_id, current_user[p].id) = {}
       THEN Return(p, TrackNotFound)
       ELSE /\ loaded' = [loaded EXCEPT ![p] = tracks[req[p].body.track_id]]
            /\ Goto(p, label)
            /\ UNCHANGED current_user
    /\ UNCHANGED <<users, profiles, collabs, tracks, now, tokens, req, new_user>>

\* Third round trip of an update: the fields of the request are assigned to
\* the loaded track and db.commit() writes the columns that changed; the
\* UPDATE of a row that is gone raises StaleDataError.
UpdateTrackCommit(p) ==
    /\ pc[p] = "commit_track_update"
    /\ LET changed == [loaded[p] EXCEPT
                         !.title = IF req[p].body.title # None
                                   THEN req[p].body.title[1] ELSE @,
                         !.genre = IF req[p].body.genre # None
                                   THEN req[p].body.genre ELSE @]
       IN  IF changed # loaded[p] /\ tracks[loaded[p].id] = DeletedTrack(loaded[p].id)
           THEN /\ Return(p, ServerError("StaleDataError"))
                /\ UNCHANGED tracks
           ELSE /\ tracks' = [tracks EXCEPT ![loaded[p].id] = flush(@, loaded[p], changed)]
                /\ Goto(p, "refresh_track")
                /\ UNCHANGED <<current_user, loaded>>
    /\ UNCHANGED <<users, profiles, collabs, now, tokens, req, new_user>>

\* PUT /artists/me/tracks/{track_id}; the fourth round trip is
\* db.refresh(track).
update_music_track(p, inputs, updates) ==
    \/ \E token \in inputs, track_update \in updates :
          AuthenticateArtist(p, Request("update_music_track", token, track_update),
                             "query_track")
    \/ /\ req[p].op = "update_music_track"
       /\ \/ TrackQuery(p, "commit_track_update")
          \/ UpdateTrackCommit(p)
          \/ LastRoundTrip(p, "refresh_track",
                RefreshedTrack(loaded[p].id, Answer(200, tracks[loaded[p].id])))

\* DELETE /artists/me/tracks/{track_id}, third round trip: the commit.
DeleteTrackCommit(p) ==
    /\ pc[p] = "commit_track_delete"
    /\ tracks' = [tracks EXCEPT ![req[p].body.track_id] = DeletedTrack(@.id)]
    /\ Return(p, Response(204, "", "", NoUser, NoToken))
    /\ UNCHANGED <<users, profiles, collabs, now, tokens, req, new_user>>

\* DELETE /artists/me/tracks/{track_id}
delete_music_track(p, inputs, ids) ==
    \/ \E token \in inputs, track_id \in ids :
          AuthenticateArtist(p, Request("delete_music_track", token,
                                        [track_id |-> track_id]),
                             "query_track")
    \/ /\ req[p].op = "delete_music_track"
       /\ \/ TrackQuery(p, "commit_track_delete")
          \/ DeleteTrackCommit(p)

\* First round trip of PUT and DELETE /music/tracks/{track_id}:
\* get_current_user(token, db), which looks neither at the role nor at the
\* active flag of the account.
AuthenticateUser(p, request, label) ==
    /\ pc[p] = "ready"
    /\ req' = [req EXCEPT ![p] = request]
    /\ new_user' = [new_user EXCEPT ![p] = 0]
    /\ \E out \in get_current_user(request.token, users, now) :
          IF out.user = NoRow
          THEN Return(p, out.error)
          ELSE /\ current_user' = [current_user EXCEPT ![p] = out.user]
               /\ UNCHANGED loaded
               /\ Goto(p, label)
    /\ UNCHANGED <<users, profiles, collabs, tracks, now, tokens>>

\* PUT /music/tracks/{track_id}: after the authentication the lookup, the
\* commit and the refresh are those of PUT /artists/me/tracks/{track_id}.
\* The answer is MusicTrackResponse.model_validate(track) with the schema
\* of schemas/music.py, which does not read attributes of objects: the
\* validation of the refreshed track raises ValidationError.
music_update_music_track(p, inputs, updates) ==
    \/ \E token \in inputs, track_update \in updates :
          AuthenticateUser(p, Request("music_update_music_track", token, track_update),
                           "query_track")
    \/ /\ req[p].op = "music_update_music_track"
       /\ \/ TrackQuery(p, "commit_track_update")
          \/ UpdateTrackCommit(p)
          \/ LastRoundTrip(p, "refresh_track",
                RefreshedTrack(loaded[p].id, ServerError("ValidationError")))

\* DELETE /music/tracks/{track_id}: after the authentication the lookup and
\* the commit are those of DELETE /artists/me/tracks/{track_id}.
music_delete_music_track(p, inputs, ids) ==
    \/ \E token \in inputs, track_id \in ids :
          AuthenticateUser(p, Request("music_delete_music_track", token,
                                      [track_id |-> track_id]),
                           "query_track")
    \/ /\ req[p].op = "music_delete_music_track"
       /\ \/ TrackQuery(p, "commit_track_delete")
          \/ DeleteTrackCommit(p)

\* ----------------------------------------------------------- collaborations
\* A row of collaborations.
Collaboration(id, requester_id, target_artist_id, status) ==
    [id |-> id, requester_id |-> requester_id,
     target_artist_id |-> target_artist_id, status |-> status]

TargetNotFound == Response(404, "Target artist not found", "", NoUser, NoToken)

AlreadySent == Response(400, "Collaboration request already sent", "", NoUser, NoToken)

CollaborationNotFound ==
    Response(404, "Collaboration request not found", "", NoUser, NoToken)

\* A target lookup by id alone, whatever the role and the active flag.
target_artists_any_account(us, id) == {u \in Rows(us) : u.id = id}

\* Rows selected by User.id == id, User.role == artist, User.is_active.
target_artists(us, id) ==
    {u \in Rows(us) : u.id = id /\ u.role = "artist" /\ u.is_active}

\* A lookup that never finds an earlier request.
existing_collab_none(cs, requester_id, target_artist_id) == {}

\* Rows selected by requester_id, target_artist_id and status == "pending".
existing_collab(cs, requester_id, target_artist_id) ==
    {c \in Rows(cs) : /\ c.requester_id = requester_id
                      /\ c.target_artist_id = target_artist_id
                      /\ c.status = "pending"}

\* POST /artists/collaborations, second round trip: the target lookup.
SendQueryTarget(p) ==
    /\ pc[p] = "query_target"
    /\ IF target_artists(users, req[p].body.target_artist_id) = {}
       THEN Return(p, TargetNotFound)
       ELSE /\ Goto(p, "query_existing")
            /\ UNCHANGED <<current_user, loaded>>
    /\ UNCHANGED <<users, profiles, collabs, tracks, now, tokens, req, new_user>>

\* Third round trip: the lookup of a pending request of the same pair.
SendQueryExisting(p) ==
    /\ pc[p] = "query_existing"
    /\ IF existing_collab(collabs, current_user[p].id,
                          req[p].body.target_artist_id) # {}
       THEN Return(p, AlreadySent)
       ELSE /\ Goto(p, "commit_collab")
            /\ UNCHANGED <<current_user, loaded>>
    /\ UNCHANGED <<users, profiles, collabs, tracks, now, tokens, req, new_user>>

\* Fourth round trip: db.add(collaboration); db.commit().
SendCommit(p) ==
    /\ pc[p] = "commit_collab"
    /\ LET row == Collaboration(Len(collabs) + 1, current_user[p].id,
                                req[p].body.target_artist_id, "pending")
       IN  /\ collabs' = Append(collabs, row)
           /\ loaded' = [loaded EXCEPT ![p] = row]
    /\ Goto(p, "refresh_collab")
    /\ UNCHANGED <<users, profiles, tracks, now, tokens, req, new_user, current_user>>

\* POST /artists/collaborations; the fifth round trip is
\* db.refresh(collaboration).
send_collaboration_request(p, inputs, ids) ==
    \/ \E token \in inputs, target_artist_id \in ids :
          AuthenticateArtist(p, Request("send_collaboration_request", token,
                                        [target_artist_id |-> target_artist_id]),
                             "query_target")
    \/ /\ req[p].op = "send_collaboration_request"
       /\ \/ SendQueryTarget(p)
          \/ SendQueryExisting(p)
          \/ SendCommit(p)
          \/ LastRoundTrip(p, "refresh_collab", Answer(201, collabs[loaded[p].id]))

\* GET /artists/collaborations, second round trip: the lookup of the sent
\* requests.
ListCollaborationsQuery(p) ==
    /\ pc[p] = "query_collabs"
    /\ loaded' = [loaded EXCEPT ![p] =
                     {c \in Rows(collabs) : c.requester_id = current_user[p].id}]
    /\ Goto(p, "query_received")
    /\ UNCHANGED <<users, profiles, collabs, tracks, now, tokens, req, new_user,
                   current_user>>

\* GET /artists/collaborations; the third round trip is the lookup of the
\* received requests.  The session keeps one object per row: a row that the
\* first lookup loaded keeps the values it was loaded with.
get_collaboration_requests(p, inputs) ==
    \/ \E token \in inputs :
          AuthenticateArtist(p, Request("get_collaboration_requests", token, NoBody),
                             "query_collabs")
    \/ /\ req[p].op = "get_collaboration_requests"
       /\ \/ ListCollaborationsQuery(p)
          \/ LastRoundTrip(p, "query_received",
                Answer(200, [sent |-> loaded[p],
                             received |->
                                {IF \E s \in loaded[p] : s.id = c.id
                                 THEN CHOOSE s \in loaded[p] : s.id = c.id
                                 ELSE c :
                                    c \in {row \in Rows(collabs) :
                                        row.target_artist_id = current_user[p].id}}]))

\* A lookup by id and target that selects a request of any status.
pending_for_any_status(cs, id, user_id) ==
    {c \in Rows(cs) : c.id = id /\ c.target_artist_id = user_id}

\* A lookup by id and status that selects a request sent to any artist.
pending_for_any_artist(cs, id, user_id) ==
    {c \in Rows(cs) : c.id = id /\ c.status = "pending"}

\* Rows selected by Collaboration.id == id, target_artist_id == user_id and
\* status == "pending".
pending_for(cs, id, user_id) ==
    {c \in Rows(cs) : /\ c.id = id
                      /\ c.target_artist_id = user_id
                      /\ c.status = "pending"}

\* Second round trip of accept and decline: the lookup of the request.
ResolveQuery(p) ==
    /\ pc[p] = "query_collab"
    /\ LET found == pending_for(collabs, req[p].body.collaboration_id,
                                current_user[p].id)
       IN  IF found = {}
           THEN Return(p, CollaborationNotFound)
           ELSE \E c \in found :
                   /\ loaded' = [loaded EXCEPT ![p] = c]
                   /\ Goto(p, "commit_status")
                   /\ UNCHANGED current_user
    /\ UNCHANGED <<users, profiles, collabs, tracks, now, tokens, req, new_user>>

\* Third round trip: collaboration.status = status; db.commit().  The
\* UPDATE is by primary key and sets the status, which differs from the
\* "pending" the object was loaded with.
ResolveCommit(p, status) ==
    /\ pc[p] = "commit_status"
    /\ collabs' = [collabs EXCEPT ![loaded[p].id] =
                      flush(@, loaded[p], [loaded[p] EXCEPT !.status = status])]
    /\ Goto(p, "refresh_status")
    /\ UNCHANGED <<users, profiles, tracks, now, tokens, req, new_user,
                   current_user, loaded>>

\* PUT /artists/collaborations/{collaboration_id}/accept; the fourth round
\* trip is db.refresh(collaboration).
accept_collaboration_request(p, inputs, ids) ==
    \/ \E token \in inputs, collaboration_id \in ids :
          AuthenticateArtist(p, Request("accept_collaboration_request", token,
                                        [collaboration_id |-> collaboration_id]),
                             "query_collab")
    \/ /\ req[p].op = "accept_collaboration_request"
       /\ \/ ResolveQuery(p)
          \/ ResolveCommit(p, "accepted")
          \/ LastRoundTrip(p, "refresh_status", Answer(200, collabs[loaded[p].id]))

\* PUT /artists/collaborations/{collaboration_id}/decline; the fourth
\* round trip is db.refresh(collaboration).
decline_collaboration_request(p, inputs, ids) ==
    \/ \E token \in inputs, collaboration_id \in ids :
          AuthenticateArtist(p, Request("decline_collaboration_request", token,
                                        [collaboration_id |-> collaboration_id]),
                             "query_collab")
    \/ /\ req[p].op = "decline_collaboration_request"
       /\ \/ ResolveQuery(p)
          \/ ResolveCommit(p, "declined")
          \/ LastRoundTrip(p, "refresh_status", Answer(200, collabs[loaded[p].id]))

\* ------------------------------------------------------------ token service
\* The arguments of a direct call of create_access_token.
TokenData == {<<>>, [sub |-> "u1"], [sub |-> "ghost"]}

\* One tick of the clock.
TickMinutes == ACCESS_TOKEN_EXPIRE_MINUTES

ExpiresDelta == {None, timedelta(0), timedelta(0 - TickMinutes)}

\* create_access_token(data, expires_delta) called on its own; the token is
\* handed to the caller.  The request records the arguments and the time
\* that the call read from the clock.
IssueToken(p, datas, deltas) ==
    /\ pc[p] = "ready"
    /\ \E data \in datas, expires_delta \in deltas :
          /\ req' = [req EXCEPT ![p] =
                        Request("create_access_token", NoToken,
                                [data |-> data, expires_delta |-> expires_delta,
                                 utcnow |-> now])]
          /\ Return(p, Response(0, "", "", NoUser,
                                create_access_token(data, expires_delta, now)))
    /\ new_user' = [new_user EXCEPT ![p] = 0]
    /\ UNCHANGED <<users, profiles, collabs, tracks, now, tokens>>

\* The tokens of a response.
TokensOf(r) == {r.access_token, r.refresh_token} \ {NoToken}

\* A client keeps a token of the response it received, to present it later.
Keep(p) ==
    /\ pc[p] = "ready"
    /\ Cardinality(tokens) < MaxTokens
    /\ \E token \in TokensOf(resp[p]) \ tokens : tokens' = tokens \cup {token}
    /\ UNCHANGED <<users, profiles, collabs, tracks, now, pc, req, resp,
                   new_user, current_user, loaded>>

\* Time passes.
Tick ==
    /\ now < MaxTicks * TickMinutes
    /\ now' = now + TickMinutes
    /\ UNCHANGED <<users, profiles, collabs, tracks, tokens, pc, req, resp,
                   new_user, current_user, loaded>>

\* ------------------------------------------------------------ specification
Init ==
    /\ users = <<>>
    /\ profiles = {}
    /\ pc = [p \in Procs |-> "ready"]
    /\ req = [p \in Procs |-> NoRequest]
    /\ resp = [p \in Procs |-> NoResponse]
    /\ new_user = [p \in Procs |-> 0]
    /\ collabs = <<>>
    /\ tracks = <<>>
    /\ now = 0
    /\ tokens = {}
    /\ current_user = [p \in Procs |-> NoRow]
    /\ loaded = [p \in Procs |-> None]

\* Registrations served one at a time, with a password of seven or of
\* eight characters; the artists of POST /artists/register send a bio,
\* genres and instruments.
Next ==
    \/ \E p \in SeqProcs :
          register_user(p, {d \in UserCreate : d.password # "otherpw9"})
    \/ \E p \in SeqProcs :
          register_artist(p, {d \in ArtistCreate : /\ d.password # "otherpw9"
                                                   /\ d.body # NoProfileFields})

Spec == Init /\ [][Next]_vars

\* Registration payloads of the accounts that log in.
LoginUserCreate == {d \in UserCreate : Len(d.password) >= 8 /\ d.role \in {"user", "artist"}}

\* Registrations, logins and deactivations, one request at a time.
NextLogin ==
    \/ \E p \in SeqProcs : register_user(p, LoginUserCreate)
    \/ \E p \in SeqProcs : login_user(p, OAuth2PasswordRequestForm)
    \/ \E id \in DOMAIN users : Deactivate(id)

SpecLogin == Init /\ [][NextLogin]_vars

\* Registration payloads of the racing requests.
RaceUserCreate == {d \in UserCreate : d.password = "longpw88" /\ d.role = "user"}

RaceArtistCreate ==
    {d \in ArtistCreate : d.password = "longpw88" /\ d.body # NoProfileFields}

\* Two registration handlers whose round trips interleave in any order.
NextRace ==
    \/ \E p \in Procs : register_user(p, RaceUserCreate)
    \/ \E p \in Procs : register_artist(p, RaceArtistCreate)

SpecRace == Init /\ [][NextRace]_vars

\* The two accounts of the token scenarios, an artist and a user: the
\* username of the second is the email address of the first.
TokenUserCreate ==
    {d \in UserCreate : /\ d.password = "longpw88"
                        /\ <<d.email, d.username, d.role>> \in
                              {<<"a@x", "u1", "artist">>, <<"b@x", "a@x", "user">>}}

TokenLoginForm ==
    {d \in OAuth2PasswordRequestForm :
        d.password = "longpw88" /\ d.username \in Usernames}

\* The profile update of the token scenarios.
TokenUpdates == {[NoUpdate EXCEPT !.bio = <<"text">>]}

\* Registrations, logins, token service calls and token-authenticated
\* requests, one at a time, while time passes.
NextToken ==
    \/ \E p \in SeqProcs : register_user(p, TokenUserCreate)
    \/ \E p \in SeqProcs : login_user(p, TokenLoginForm)
    \/ \E p \in SeqProcs : IssueToken(p, TokenData, ExpiresDelta)
    \/ \E p \in SeqProcs : Keep(p)
    \/ \E p \in SeqProcs : get_current_user_endpoint(p, tokens \cup {InvalidToken})
    \/ \E p \in SeqProcs : update_artist_profile(p, tokens \cup {InvalidToken}, TokenUpdates)
    \/ \E p \in SeqProcs : logout(p, tokens)
    \/ Tick

SpecToken == Init /\ [][NextToken]_vars

\* The access tokens that registrations and logins hand to the accounts:
\* the clock of the specifications below stands still.
AccountTokens ==
    {create_access_token([sub |-> u.username], None, now) : u \in Rows(users)}

\* The accounts of the artist-only scenarios: an artist and an account of
\* another role.
ArtistUserCreate ==
    {d \in UserCreate : /\ d.password = "longpw88"
                        /\ \/ <<d.email, d.username, d.role>> = <<"a@x", "u1", "artist">>
                           \/ /\ <<d.email, d.username>> = <<"b@x", "a@x">>
                              /\ d.role # "artist"}

PictureFiles == UploadFile("image", {MAX_PICTURE_BYTES, MAX_PICTURE_BYTES + 1})

TrackUploads ==
    [audio_file : UploadFile("audio", {MAX_AUDIO_BYTES, MAX_AUDIO_BYTES + 1}),
     title : {"song"}, genre : OptionalStr]

TrackIds == 1..MaxTracks

TrackUpdates == [track_id : TrackIds, title : {<<"remix">>}, genre : {None}]

CollabIds == 1..MaxCollabs

\* Every artist-only endpoint, one request at a time, called with the tokens
\* of the registered accounts.
NextArtist ==
    \/ \E p \in SeqProcs : register_user(p, ArtistUserCreate)
    \/ \E p \in SeqProcs : get_artist_profile(p, AccountTokens)
    \/ \E p \in SeqProcs : update_artist_profile(p, AccountTokens, TokenUpdates)
    \/ \E p \in SeqProcs : upload_profile_picture(p, AccountTokens, PictureFiles)
    \/ \E p \in SeqProcs :
          /\ pc[p] # "ready" \/ Len(tracks) < MaxTracks
          /\ upload_music_track(p, AccountTokens, TrackUploads)
    \/ \E p \in SeqProcs : get_artist_tracks(p, AccountTokens)
    \/ \E p \in SeqProcs : update_music_track(p, AccountTokens, TrackUpdates)
    \/ \E p \in SeqProcs : delete_music_track(p, AccountTokens, TrackIds)
    \/ \E p \in SeqProcs :
          /\ pc[p] # "ready" \/ Len(collabs) < MaxCollabs
          /\ send_collaboration_request(p, AccountTokens, 1..(Len(users) + 1))
    \/ \E p \in SeqProcs : get_collaboration_requests(p, AccountTokens)
    \/ \E p \in SeqProcs : accept_collaboration_request(p, AccountTokens, CollabIds)
    \/ \E p \in SeqProcs : decline_collaboration_request(p, AccountTokens, CollabIds)

SpecArtist == Init /\ [][NextArtist]_vars

\* The accounts of the collaboration scenarios: the artist u1 registers
\* first, the second account is an artist or a plain user.
CollabUserCreate ==
    {d \in UserCreate :
        /\ d.password = "longpw88"
        /\ IF users = <<>>
           THEN <<d.email, d.username, d.role>> = <<"a@x", "u1", "artist">>
           ELSE /\ <<d.email, d.username>> = <<"b@x", "a@x">>
                /\ d.role \in {"artist", "user"}}

\* Registrations, deactivations of the second account and collaboration
\* requests, handled one at a time.
NextCollab ==
    \/ \E p \in SeqProcs : register_user(p, CollabUserCreate)
    \/ \E id \in DOMAIN users :
          /\ \A p \in Procs : pc[p] = "ready"
          /\ users[id].username # "u1"
          /\ Deactivate(id)
    \/ \E p \in SeqProcs :
          /\ pc[p] # "ready" \/ Len(collabs) < MaxCollabs
          /\ send_collaboration_request(p, AccountTokens, 1..(Len(users) + 1))
    \/ \E p \in SeqProcs : accept_collaboration_request(p, AccountTokens, CollabIds)
    \/ \E p \in SeqProcs : decline_collaboration_request(p, AccountTokens, CollabIds)

SpecCollab == Init /\ [][NextCollab]_vars

\* The profile updates of the update scenarios: none of the fields, the bio
\* alone with one of two texts, and every field but the bio.
ProfileUpdates ==
    {NoUpdate,
     [NoUpdate EXCEPT !.bio = <<"text">>],
     [NoUpdate EXCEPT !.bio = <<"other">>],
     [NoUpdate EXCEPT !.genres = << <<"item">> >>, !.instruments = << <<"item">> >>,
                      !.location = <<"text">>, !.website = <<"text">>]}

\* Registrations and profile updates through both endpoints, one request at
\* a time.
NextProfile ==
    \/ \E p \in SeqProcs : register_user(p, CollabUserCreate)
    \/ \E p \in SeqProcs : update_artist_profile(p, AccountTokens, ProfileUpdates)
    \/ \E p \in SeqProcs :
          update_user(p, AccountTokens,
                      UserProfileUpdate({str(i) : i \in 1..(Len(users) + 1)},
                                        {None, <<"stage">>}, ProfileUpdates))
    \/ \E p \in SeqProcs : delete_user(p, {str(i) : i \in DOMAIN users})

SpecProfile == Init /\ [][NextProfile]_vars

\* Two handlers whose round trips interleave in any order, each serving
\* registrations and PUT /users/{id}.
NextProfileRace ==
    \/ \E p \in Procs : register_user(p, TokenUserCreate)
    \/ \E p \in Procs :
          update_user(p, AccountTokens,
                      UserProfileUpdate({str(i) : i \in DOMAIN users}, {None},
                                        {NoUpdate, [NoUpdate EXCEPT !.bio = <<"text">>]}))

SpecProfileRace == Init /\ [][NextProfileRace]_vars

\* The handlers that are between the first and the last round trip of a
\* POST /artists/collaborations.
Sending == {p \in Procs : pc[p] \in {"query_target", "query_existing", "commit_collab"}}

\* Two handlers interleaved at every round trip: sends, accepts and declines
\* of collaboration requests between two artists.
NextCollabRace ==
    \/ \E p \in SeqProcs :
          /\ collabs = <<>> /\ Sending = {}
          /\ register_user(p, {d \in CollabUserCreate : d.role = "artist"})
    \/ \E p \in Procs :
          /\ pc[p] # "ready" \/ Len(collabs) + Cardinality(Sending) < MaxCollabs
          /\ send_collaboration_request(
                p, {create_access_token([sub |-> "u1"], None, now)}, DOMAIN users)
    \/ \E p \in Procs : accept_collaboration_request(p, AccountTokens, CollabIds)
    \/ \E p \in Procs : decline_collaboration_request(p, AccountTokens, CollabIds)

SpecCollabRace == Init /\ [][NextCollabRace]_vars

\* The uploads of the music scenarios: an audio or a text file at and above
\* the limit of POST /music/tracks, with no genre, a listed genre or an
\* unlisted one.
MusicTrackUploads ==
    [audio_file : UploadFile("audio", {10 * 1024 * 1024, 10 * 1024 * 1024 + 1}),
     title : {"song"}, genre : {None, <<"rock">>, <<"text">>}]

\* Registrations, deactivations, GET /auth/me and uploads, updates and
\* deletes of tracks through /artists/me/tracks and /music/tracks, one
\* request at a time, except DELETE /artists/me/tracks/{id}, which a second
\* handler also serves between the round trips of the first.
NextMusic ==
    \/ \E p \in SeqProcs : register_user(p, CollabUserCreate)
    \/ \E id \in DOMAIN users :
          /\ \A p \in Procs : pc[p] = "ready"
          /\ Deactivate(id)
    \/ \E p \in SeqProcs : get_current_user_endpoint(p, AccountTokens)
    \/ \E p \in SeqProcs :
          /\ pc[p] # "ready" \/ Len(tracks) < MaxTracks
          /\ upload_music_track(p, AccountTokens, MusicTrackUploads)
    \/ \E p \in SeqProcs :
          /\ pc[p] # "ready" \/ Len(tracks) < MaxTracks
          /\ music_upload_music_track(p, AccountTokens, MusicTrackUploads)
    \/ \E p \in SeqProcs : update_music_track(p, AccountTokens, TrackUpdates)
    \/ \E p \in Procs : delete_music_track(p, AccountTokens, TrackIds)
    \/ \E p \in SeqProcs : music_update_music_track(p, AccountTokens, TrackUpdates)
    \/ \E p \in SeqProcs : music_delete_music_track(p, AccountTokens, TrackIds)

SpecMusic == Init /\ [][NextMusic]_vars

\* Registrations whose addresses differ in letter case only, as clients
\* type them.
CaseUserCreate ==
    [op : {"register_user"}, email : {EmailStr(e) : e \in {"a@x", "A@x", "a@X"}},
     username : Usernames, password : {"longpw88", "short77"},
     role : {"user", "artist"}, display_name : {"name"},
     token : {NoToken}, body : {NoBody}]

\* Registrations with addresses that differ in letter case, one at a time.
NextCase ==
    \E p \in SeqProcs : register_user(p, CaseUserCreate)

SpecCase == Init /\ [][NextCase]_vars

\* ================================================================== claims
IsRegistration(r) == r.op \in {"register_user", "register_artist"}

\* Rows whose email or username equals the identifier.
Holders(ident) == {u \in Rows(users) : u.email = ident \/ u.username = ident}

\* The password is the one the row's hash was made from.
PasswordOf(u, password) == u.password_hash.digest = <<u.password_hash.salt, password>>

\* Handler p has answered its request.
Answered(p) == pc[p] = "ready" /\ resp[p] # NoResponse

\* Handler p completes a login in this step.
LoginStep(p) ==
    /\ pc[p] = "ready"
    /\ pc'[p] = "ready"
    /\ req'[p].op = "login"
    /\ (req'[p] # req[p] \/ resp'[p] # resp[p])

\* C1: whatever registration requests were served, accepted or rejected, no
\* two rows of users have the same email and no two have the same username.
C1_UniqueEmailAndUsername ==
    \A i, j \in DOMAIN users :
        i # j => /\ users[i].email # users[j].email
                 /\ users[i].username # users[j].username

\* Two accounts exist and a later registration was turned down for reusing
\* an email or a username.
C1_Witness ==
    /\ Len(users) = 2
    /\ \E p \in Procs : resp[p] \in {EmailRegistered, UsernameTaken}

\* C2: of two registrations in flight together with the same email, or the
\* same username, at most one creates an account and answers 201.
C2_RacingRegistrations ==
    \A p, q \in Procs :
        /\ resp[p].status = 201 =>
                /\ new_user[p] \in DOMAIN users
                /\ users[new_user[p]].email = req[p].email
                /\ users[new_user[p]].username = req[p].username
        /\ (p # q /\ new_user[p] # 0 /\ new_user[q] # 0) =>
                /\ req[p].email # req[q].email
                /\ req[p].username # req[q].username

\* Both handlers passed their lookups for the same email; one created the
\* account and the insert of the other was refused by the store.
C2_Witness ==
    \E p, q \in Procs :
        /\ p # q
        /\ req[p].email = req[q].email
        /\ resp[p].status = 201
        /\ resp[q] = ServerError("IntegrityError")
        /\ Cardinality({u \in Rows(users) : u.email = req[p].email}) = 1

\* C3: an artist's account is in the store only together with its profile,
\* except while the handler that created it is still about to insert the
\* profile (it reads the new account back, then inserts the profile).
C3_ArtistRegistrationAtomic ==
    \A u \in Rows(users) :
        u.role = "artist" =>
            \/ \E pr \in profiles : pr.user_id = u.id
            \/ \E p \in Procs : /\ pc[p] \in {"refresh_new_user", "commit_profile"}
                                 /\ new_user[p] = u.id

\* C4: a registration with a password of fewer than 8 characters is answered
\* with the weak-password error (422), whatever its email and username.
C4_PasswordCheckedFirst ==
    \A p \in Procs :
        (Answered(p) /\ IsRegistration(req[p]) /\ Len(req[p].password) < 8)
            => resp[p] = WeakPassword

\* C5: a registration with a valid password whose email belongs to an
\* account of another request is answered "Email already registered" and
\* creates nothing, whether or not its username is taken too; "Username
\* already taken" is answered only when no account has the email.
C5_DuplicateEmailReportedFirst ==
    \A p \in Procs :
        (Answered(p) /\ IsRegistration(req[p]) /\ Len(req[p].password) >= 8) =>
            /\ (\E u \in Rows(users) : u.email = req[p].email /\ u.id # new_user[p])
                    => /\ resp[p] = EmailRegistered
                       /\ new_user[p] = 0
                       /\ Cardinality({u \in Rows(users) : u.email = req[p].email}) = 1
            /\ resp[p] = UsernameTaken
                    => ~ \E u \in Rows(users) : u.email = req[p].email

\* A request that reuses both the email and the username of an account was
\* turned down for its email.
C5_Witness ==
    \E p \in Procs :
        /\ IsRegistration(req[p])
        /\ Len(req[p].password) >= 8
        /\ resp[p] = EmailRegistered
        /\ \E u \in Rows(users) : u.email = req[p].email /\ u.username = req[p].username

\* C6: a login with the email, or the username, and the password of the
\* account that was registered last and is active, is answered 200 with
\* that account.
C6_LoginAfterRegister ==
    \A p \in Procs :
        (Answered(p) /\ req[p].op = "login") =>
            \A u \in Holders(req[p].username) :
                (u.id = Len(users) /\ u.is_active /\ PasswordOf(u, req[p].password))
                    => resp[p] = LoggedIn(u)

\* C7: at most one account has its email or its username equal to a given
\* identifier.
C7_IdentifierUnambiguous ==
    \A ident \in Identifiers : Cardinality(Holders(ident)) <= 1

\* C8: a login whose identifier no account holds and a login whose password
\* fits no account holding the identifier get the very same answer: 401
\* with the one detail text.
C8_IndistinguishableFailures ==
    \A p \in Procs :
        (Answered(p) /\ req[p].op = "login") =>
            /\ Holders(req[p].username) = {} => resp[p] = InvalidCredentials
            /\ (\A u \in Holders(req[p].username) : ~PasswordOf(u, req[p].password))
                    => resp[p] = InvalidCredentials
            /\ InvalidCredentials.status = 401

\* A login with the identifier of an account and a wrong password was
\* answered with the invalid-credentials error.
C8_Witness ==
    \E p \in Procs :
        /\ req[p].op = "login"
        /\ Holders(req[p].username) # {}
        /\ \A u \in Holders(req[p].username) : ~PasswordOf(u, req[p].password)
        /\ resp[p] = InvalidCredentials

\* C9: a login for a deactivated account with a wrong password gets the
\* invalid-credentials answer of an unknown identifier, and the inactive
\* answer is given only for a deactivated account whose password was right.
C9_ActiveCheckedAfterPassword ==
    \A p \in Procs :
        (Answered(p) /\ req[p].op = "login") =>
            /\ ( (\E u \in Holders(req[p].username) : ~u.is_active)
                 /\ (\A v \in Holders(req[p].username) : ~PasswordOf(v, req[p].password)) )
                    => resp[p] = InvalidCredentials
            /\ resp[p] = InactiveUser
                    => \E u \in Holders(req[p].username) :
                          ~u.is_active /\ PasswordOf(u, req[p].password)

\* A login with the right password of a deactivated account was answered
\* with the inactive error.
C9_Witness ==
    \E p \in Procs :
        /\ req[p].op = "login"
        /\ resp[p] = InactiveUser
        /\ \E u \in Holders(req[p].username) :
              ~u.is_active /\ PasswordOf(u, req[p].password)

\* C10: a login with the right password of the one account holding the
\* identifier, when that account is deactivated, is answered 401 without a
\* token; a token is issued only for an active account holding the
\* identifier whose password was given.
C10_DeactivatedLoginUnauthorized ==
    [][\A p \in Procs :
        LoginStep(p) =>
            LET found == login_matches(users, req'[p].username)
            IN  /\ (\E u \in found :
                        /\ found = {u}
                        /\ ~u.is_active
                        /\ PasswordOf(u, req'[p].password))
                    => (resp'[p].status = 401 /\ resp'[p].access_token = NoToken)
                /\ resp'[p].access_token # NoToken
                    => \E u \in found : u.is_active /\ PasswordOf(u, req'[p].password)
      ]_vars

\* C11: a token that create_access_token made for a ttl of zero or less is
\* rejected with the credentials error by every GET /auth/me that presents
\* it at a later time.
C11_ZeroTtlRejected ==
    [][\A p \in Procs :
        ( /\ pc[p] = "ready"
          /\ req[p].op = "create_access_token"
          /\ req[p].body.expires_delta # None
          /\ req[p].body.expires_delta[1] <= 0
          /\ now > req[p].body.utcnow
          /\ req'[p].op = "get_current_user_endpoint"
          /\ req'[p].token = resp[p].access_token )
            => resp'[p] = CredentialsException
      ]_vars

\* C12: the refresh token of a 201 answer has an expiry, and that expiry is
\* later than the expiry of the access token of the same answer.
C12_RefreshOutlivesAccess ==
    \A p \in Procs :
        resp[p].status = 201 =>
            /\ "exp" \in DOMAIN resp[p].refresh_token.claims
            /\ "exp" \in DOMAIN resp[p].access_token.claims
            /\ resp[p].refresh_token.claims.exp > resp[p].access_token.claims.exp

\* The subject claim of a token, an Optional[str].
SubjectOf(token) == payload_get(token.claims, "sub")

\* The token carries the server's signature, its expiry has not passed and
\* its subject is the username of an account.
Acceptable(token) ==
    /\ token.key = SECRET_KEY
    /\ "exp" \in DOMAIN token.claims
    /\ now <= token.claims.exp
    /\ \E u \in Rows(users) : <<u.username>> = SubjectOf(token)

\* The operations whose handler starts by authenticating the bearer token.
TokenOps ==
    {"get_current_user_endpoint", "get_artist_profile", "update_artist_profile",
     "get_artist_tracks", "update_music_track", "delete_music_track",
     "send_collaboration_request", "get_collaboration_requests",
     "accept_collaboration_request", "decline_collaboration_request"}

\* Handler p takes up a request for one of the operations in this step.
Takes(p, ops) ==
    /\ pc[p] = "ready"
    /\ req'[p].op \in ops
    /\ <<req'[p], resp'[p], pc'[p]>> # <<req[p], resp[p], pc[p]>>

\* C13: at every point after a token was handed out, whatever requests were
\* served since, token authentication accepts the token as long as its
\* expiry has not passed and its subject is the username of an account; a
\* GET /auth/me that presents such a token is not turned down.
C13_TokensNotRevocable ==
    [][ /\ \A token \in tokens :
            Acceptable(token) =>
                \A out \in get_current_user(token, users, now) :
                    /\ out.error = NoResponse
                    /\ <<out.user.username>> = SubjectOf(token)
        /\ \A p \in Procs :
            (Takes(p, {"get_current_user_endpoint"}) /\ Acceptable(req'[p].token))
                => \/ pc'[p] = "query_profile"
                   \/ resp'[p].status = 200
      ]_vars

\* A token that was handed out 30 minutes earlier is presented at the last
\* minute of its life, after a second registration and a profile update,
\* and GET /auth/me answers 200.
C13_Witness ==
    \E p \in Procs :
        /\ req[p].op = "get_current_user_endpoint"
        /\ req[p].token \in tokens
        /\ req[p].token.claims.exp = now
        /\ now > 0
        /\ resp[p].status = 200
        /\ Len(users) = 2
        /\ \E pr \in profiles : pr.bio # None

\* C14: a handler that authenticates a token loads only the account whose
\* username is the token's subject, and answers 401 without writing to the
\* store when the subject is missing or is the username of no account.
C14_SubjectIsUsername ==
    [][\A p \in Procs :
        Takes(p, TokenOps) =>
            LET sub == SubjectOf(req'[p].token)
            IN  /\ current_user'[p] # NoRow => <<current_user'[p].username>> = sub
                /\ resp'[p].user # NoUser => <<resp'[p].user.username>> = sub
                /\ (sub = None \/ by_username(users, sub) = {})
                        => /\ resp'[p].status = 401
                           /\ pc'[p] = "ready"
                           /\ UNCHANGED <<users, profiles, collabs, tracks>>
      ]_vars

\* The token of an account whose username is the email address of another
\* account was presented, and GET /auth/me answered with the account of the
\* token.
C14_Witness ==
    \E p \in Procs :
        /\ req[p].op = "get_current_user_endpoint"
        /\ req[p].token \in tokens
        /\ resp[p].status = 200
        /\ <<resp[p].user.username>> = SubjectOf(req[p].token)
        /\ \E u \in Rows(users) :
              /\ u.email = resp[p].user.username
              /\ u.username # resp[p].user.username

\* The operations that are reserved to artists.
ArtistOps ==
    (TokenOps \ {"get_current_user_endpoint"})
        \cup {"upload_profile_picture", "upload_music_track"}

\* The token is acceptable and its subject is an active account whose role
\* is user, promoter or venue.
OfActiveNonArtist(token) ==
    /\ Acceptable(token)
    /\ \A u \in by_username(users, SubjectOf(token)) :
          u.is_active /\ u.role \in {"user", "promoter", "venue"}

\* C15: an artist-only operation that is called with the valid token of an
\* active account of role user, promoter or venue is answered 403 at once,
\* and no row of any table changes.
C15_NonArtistsForbidden ==
    [][\A p \in Procs :
        (Takes(p, ArtistOps) /\ OfActiveNonArtist(req'[p].token))
            => /\ resp'[p].status = 403
               /\ pc'[p] = "ready"
               /\ UNCHANGED <<users, profiles, collabs, tracks>>
      ]_vars

\* The accounts whose username is the subject of the token.
Bearer(token) == by_username(users, SubjectOf(token))

ActiveArtist(u) == u.is_active /\ u.role = "artist"

\* Handler p completes a request for one of the operations in this step.
Ends(p, ops) ==
    /\ req'[p].op \in ops
    /\ pc'[p] = "ready"
    /\ <<req'[p], resp'[p], pc'[p]>> # <<req[p], resp[p], pc[p]>>

\* Handler p takes a step of a request for one of the operations.
Serves(p, ops) ==
    /\ req'[p].op \in ops
    /\ <<req'[p], resp'[p], pc'[p]>> # <<req[p], resp[p], pc[p]>>

\* The pending requests of requester a to target b.
PendingOf(cs, a, b) ==
    {i \in DOMAIN cs : /\ cs[i].requester_id = a
                       /\ cs[i].target_artist_id = b
                       /\ cs[i].status = "pending"}

Rejected(r) == r.status \in {400, 401, 403, 404}

ResolveOps == {"accept_collaboration_request", "decline_collaboration_request"}

\* The collaboration that handler p has inserted and is about to read back
\* for its answer.
Inserted(p) == IF pc[p] = "refresh_collab" THEN {loaded[p].id} ELSE {}

\* C16: with requests handled one at a time, no ordered pair of requester
\* and target ever has two pending collaborations; a send from A to B that
\* completes while a request of A to B, other than the one it has inserted
\* itself, is pending is rejected and adds no record, and it is answered 400
\* "already sent" when A and B are active artists.
C16_OnePendingPerPair ==
    [][ /\ \A i, j \in DOMAIN collabs' :
            j \in PendingOf(collabs', collabs'[i].requester_id,
                            collabs'[i].target_artist_id) \ {i}
                => collabs'[i].status # "pending"
        /\ \A p \in Procs :
            Ends(p, {"send_collaboration_request"}) =>
                \A a \in Bearer(req'[p].token) :
                    LET b == req'[p].body.target_artist_id
                    IN  PendingOf(collabs, a.id, b) \ Inserted(p) # {} =>
                          /\ Rejected(resp'[p])
                          /\ collabs' = collabs
                          /\ (ActiveArtist(a) /\ \E t \in Rows(users) :
                                                    t.id = b /\ ActiveArtist(t))
                                => /\ resp'[p].status = 400
                                   /\ resp'[p].detail = "Collaboration request already sent"
      ]_vars

\* A second send of the same pair was answered 400 "already sent" while the
\* first request is pending.
C16_Witness ==
    \E p \in Procs :
        /\ req[p].op = "send_collaboration_request"
        /\ pc[p] = "ready"
        /\ resp[p].detail = "Collaboration request already sent"
        /\ \E a \in Bearer(req[p].token) :
              /\ a.id # req[p].body.target_artist_id
              /\ Cardinality(PendingOf(collabs, a.id, req[p].body.target_artist_id)) = 1

\* Handler p has committed its accept or decline and is about to read the
\* collaboration back for its answer.
Resolved(p) == pc[p] = "refresh_status"

\* C17: the status of a collaboration changes only from pending to accepted
\* or from pending to declined; an accept or a decline of a collaboration
\* that is not pending commits nothing, leaves every record as it was and is
\* rejected.
C17_StatusTerminal ==
    [][ /\ \A i \in DOMAIN collabs :
            /\ i \in DOMAIN collabs'
            /\ collabs'[i].status # collabs[i].status
                  => /\ collabs[i].status = "pending"
                     /\ collabs'[i].status \in {"accepted", "declined"}
        /\ \A p \in Procs :
            (Serves(p, ResolveOps) /\ ~Resolved(p)) =>
                LET id == req'[p].body.collaboration_id
                IN  (id \in DOMAIN collabs /\ collabs[id].status # "pending")
                        => /\ collabs' = collabs
                           /\ ~Resolved(p)'
                           /\ pc'[p] = "ready" => Rejected(resp'[p])
      ]_vars

\* The target of an accepted collaboration asked to decline it and was
\* answered 404; the collaboration is still accepted.
C17_Witness ==
    \E p \in Procs :
        /\ req[p].op = "decline_collaboration_request"
        /\ pc[p] = "ready"
        /\ resp[p].status = 404
        /\ req[p].body.collaboration_id \in DOMAIN collabs
        /\ LET c == collabs[req[p].body.collaboration_id]
           IN  /\ c.status = "accepted"
               /\ \E u \in Bearer(req[p].token) :
                     u.id = c.target_artist_id /\ ActiveArtist(u)

\* C18: the status of a collaboration changes only in a request of its
\* target; an accept or a decline of a pending collaboration by an account
\* that is not its target, the requester included, is rejected and leaves
\* the collaboration pending.
C18_OnlyTargetResolves ==
    [][ /\ \A i \in DOMAIN collabs :
            collabs'[i].status # collabs[i].status =>
                \E p \in Procs :
                    /\ req[p].op \in ResolveOps
                    /\ req[p].body.collaboration_id = i
                    /\ \E u \in Bearer(req[p].token) :
                          u.id = collabs[i].target_artist_id
        /\ \A p \in Procs :
            Ends(p, ResolveOps) =>
                LET id == req'[p].body.collaboration_id
                IN  ( /\ id \in DOMAIN collabs
                      /\ collabs[id].status = "pending"
                      /\ \A u \in Bearer(req'[p].token) :
                            u.id # collabs[id].target_artist_id )
                        => /\ Rejected(resp'[p])
                           /\ collabs'[id].status = "pending"
      ]_vars

\* The requester of a pending collaboration, an active artist who is not
\* its target, asked to accept it and was answered 404; it is still
\* pending.
C18_Witness ==
    \E p \in Procs :
        /\ req[p].op = "accept_collaboration_request"
        /\ pc[p] = "ready"
        /\ resp[p].status = 404
        /\ req[p].body.collaboration_id \in DOMAIN collabs
        /\ LET c == collabs[req[p].body.collaboration_id]
           IN  /\ c.status = "pending"
               /\ c.requester_id # c.target_artist_id
               /\ \E u \in Bearer(req[p].token) :
                     u.id = c.requester_id /\ ActiveArtist(u)

\* C19: a collaboration is added only by a step at which its requester and
\* its target are active artists; a send whose bearer is not an active
\* artist, or whose target id is not the id of an active artist, is
\* rejected and adds no record.
C19_BetweenActiveArtists ==
    [][ /\ Len(collabs') > Len(collabs) =>
            LET c == collabs'[Len(collabs')]
            IN  /\ \E u \in Rows(users) : u.id = c.requester_id /\ ActiveArtist(u)
                /\ \E u \in Rows(users) : u.id = c.target_artist_id /\ ActiveArtist(u)
        /\ \A p \in Procs :
            ( /\ Ends(p, {"send_collaboration_request"})
              /\ \/ \A u \in Bearer(req'[p].token) : ~ActiveArtist(u)
                 \/ \A t \in Rows(users) :
                        t.id = req'[p].body.target_artist_id => ~ActiveArtist(t) )
                => /\ Rejected(resp'[p])
                   /\ collabs' = collabs
      ]_vars

\* A collaboration between two active artists was recorded, the target was
\* deactivated, and a further send to it was answered 404.
C19_Witness ==
    \E p \in Procs :
        /\ req[p].op = "send_collaboration_request"
        /\ pc[p] = "ready"
        /\ resp[p].status = 404
        /\ req[p].body.target_artist_id \in DOMAIN users
        /\ ~users[req[p].body.target_artist_id].is_active
        /\ users[req[p].body.target_artist_id].role = "artist"
        /\ \E i \in DOMAIN collabs :
              collabs[i].target_artist_id = req[p].body.target_artist_id

ProfileFields == {"bio", "genres", "instruments", "location", "website"}

UpdateOps == {"update_artist_profile", "update_user"}

\* The value of a field of the profile of an account, None when the account
\* has no profile.
FieldOf(ps, user_id, f) ==
    IF \E pr \in ps : pr.user_id = user_id
    THEN (CHOOSE pr \in ps : pr.user_id = user_id)[f]
    ELSE None

\* C20: a step of a profile update that changes the profiles is a step of
\* an artist's request: it leaves one profile per account, adds at most the
\* artist's own, and leaves every field of every profile as it was, except
\* the fields of the artist's profile that the request carries, which get
\* the values of the request; an update that succeeds for an artist answers
\* when the artist's profile has the value of the request in each field
\* that the request carries.
C20_UpdateWritesPresentFields ==
    [][\A p \in Procs :
        Serves(p, UpdateOps) =>
            /\ Bearer(req'[p].token) = {} => profiles' = profiles
            /\ \A owner \in Bearer(req'[p].token) :
                  /\ profiles' # profiles =>
                        /\ owner.role = "artist"
                        /\ {pr.user_id : pr \in profiles'}
                              = {pr.user_id : pr \in profiles} \cup {owner.id}
                        /\ Cardinality(profiles') = Cardinality({pr.user_id : pr \in profiles'})
                        /\ \A id \in DOMAIN users, f \in ProfileFields :
                              FieldOf(profiles', id, f) =
                                  IF id = owner.id /\ req'[p].body[f] # None
                                  THEN req'[p].body[f]
                                  ELSE FieldOf(profiles, id, f)
                  /\ ( /\ Ends(p, UpdateOps)
                       /\ resp'[p].status = 200
                       /\ owner.role = "artist" ) =>
                        /\ \E pr \in profiles' : pr.user_id = owner.id
                        /\ \A f \in ProfileFields :
                              req'[p].body[f] # None
                                  => FieldOf(profiles', owner.id, f) = req'[p].body[f]
      ]_vars

\* PUT /users/{id} succeeded with a request that carries every field but
\* the bio: the profile has these fields and has kept the bio it had,
\* which differs from the bio of the other artist's profile.
C20_Witness ==
    \E p \in Procs :
        /\ req[p].op = "update_user"
        /\ pc[p] = "ready"
        /\ resp[p].status = 200
        /\ req[p].body.bio = None
        /\ req[p].body.website # None
        /\ \E pr, other \in profiles :
              /\ str(pr.user_id) = req[p].body.user_id
              /\ pr.bio = <<"other">>
              /\ pr.website = req[p].body.website
              /\ other.user_id # pr.user_id
              /\ other.bio = <<"text">>
              /\ other.website = None

\* The rows of a table of profiles that belong to others than the account.
ProfilesOfOthers(ps, id) == {pr \in ps : pr.user_id # id}

\* C21: a PUT /users/{id} whose bearer is an account with another id is
\* answered 403, and a step of a profile update, through either endpoint,
\* leaves the rows of users and the profiles of every account other than the
\* bearer as they were, and adds or removes no account, collaboration or
\* track.
C21_OnlyOwnRecords ==
    [][\A p \in Procs :
        Serves(p, UpdateOps) =>
            /\ \A a \in Bearer(req'[p].token) :
                  /\ ( /\ Ends(p, {"update_user"})
                       /\ str(a.id) # req'[p].body.user_id ) => resp'[p].status = 403
                  /\ \A i \in DOMAIN users : i # a.id => users'[i] = users[i]
                  /\ ProfilesOfOthers(profiles', a.id) = ProfilesOfOthers(profiles, a.id)
            /\ Bearer(req'[p].token) = {} => UNCHANGED <<users, profiles>>
            /\ DOMAIN users' = DOMAIN users
            /\ UNCHANGED <<collabs, tracks>>
      ]_vars

\* An artist asked PUT /users/{id} with the id of the other artist and a
\* new display name and bio, and was answered 403; the other artist has the
\* display name and the bio it had.
C21_Witness ==
    \E p \in Procs, i \in DOMAIN users :
        /\ req[p].op = "update_user"
        /\ pc[p] = "ready"
        /\ resp[p].status = 403
        /\ req[p].body.user_id = str(i)
        /\ req[p].body.display_name = <<"stage">>
        /\ req[p].body.bio = <<"other">>
        /\ users[i].display_name = "name"
        /\ \E pr \in profiles : pr.user_id = i /\ pr.bio = <<"text">>
        /\ \E a \in Bearer(req[p].token) : a.id # i /\ a.display_name = "stage"

\* C22: no account has two profiles and every profile is the profile of an
\* account of role artist, also while registrations and the lazy creations
\* of PUT /users/{id} interleave.
C22_OneProfilePerArtist ==
    /\ \A pr, other \in profiles : pr.user_id = other.user_id => pr = other
    /\ \A pr \in profiles :
          /\ pr.user_id \in DOMAIN users
          /\ users[pr.user_id].role = "artist"

\* Two PUT /users/{id} of the same artist found no profile; one created it
\* and the other was answered 500 for the unique index.
C22_Witness ==
    \E p, q \in Procs :
        /\ p # q
        /\ req[p].op = "update_user" /\ req[q].op = "update_user"
        /\ req[p].body.user_id = req[q].body.user_id
        /\ resp[p].status = 200
        /\ resp[q].status = 500 /\ resp[q].exc = "IntegrityError"
        /\ \E pr \in profiles : str(pr.user_id) = req[p].body.user_id

\* The address in lower case.
lower(address) ==
    CASE address \in {"A@x", "a@X", "A@X"} -> "a@x"
      [] OTHER -> address

\* C23: no two accounts have addresses that are equal up to letter case.
C23_EmailUniqueUpToCase ==
    \A i, j \in DOMAIN users :
        i # j => lower(users[i].email) # lower(users[j].email)

\* C24: a step of any operation leaves every account in the table with the
\* email, the username and the role it had.
C24_IdentityFieldsImmutable ==
    [][\A i \in DOMAIN users :
          /\ i \in DOMAIN users'
          /\ users'[i].id = users[i].id
          /\ users'[i].email = users[i].email
          /\ users'[i].username = users[i].username
          /\ users'[i].role = users[i].role
      ]_vars

\* A DELETE /users/{id} for an account was answered 501 after that account
\* had its display name changed by PUT /users/{id}: the account is in the
\* table with the new display name and the username it registered with.
C24_Witness ==
    \E p \in Procs, i \in DOMAIN users :
        /\ req[p].op = "delete_user"
        /\ pc[p] = "ready"
        /\ resp[p].status = 501
        /\ req[p].body.user_id = str(i)
        /\ users[i].display_name = "stage"
        /\ users[i].username \in Usernames
        /\ users[i].email \in Emails

\* C25: the step that ends a registration with a rejection (400 or 422)
\* leaves the accounts and the profiles as they were, the request has
\* inserted no account in an earlier step, and the answer carries no account
\* and no token; collaborations and tracks are as they were.
C25_RejectedRegistrationHasNoEffect ==
    [][\A p \in Procs :
        ( /\ Ends(p, {"register_user", "register_artist"})
          /\ resp'[p].status \in {400, 422} ) =>
            /\ users' = users
            /\ profiles' = profiles
            /\ new_user'[p] = 0
            /\ resp'[p].user = NoUser
            /\ resp'[p].access_token = NoToken
            /\ resp'[p].refresh_token = NoToken
            /\ UNCHANGED <<collabs, tracks, tokens>>
      ]_vars

\* A registration of an artist with a fresh email and username and a
\* password of seven characters was answered 422 while an account was
\* registered: no account has its email and the artist profiles are those
\* of the accounts.
C25_Witness ==
    \E p \in Procs :
        /\ IsRegistration(req[p])
        /\ pc[p] = "ready"
        /\ resp[p] = WeakPassword
        /\ req[p].role = "artist"
        /\ Len(users) >= 1
        /\ ~ \E u \in Rows(users) : u.email = req[p].email \/ u.username = req[p].username
        /\ \A pr \in profiles : pr.user_id \in DOMAIN users

\* C26: also while two sends are handled at once, no ordered pair of a
\* requester and another account as target has two pending collaborations.
C26_OnePendingPerPairUnderRace ==
    \A a, b \in DOMAIN users :
        a # b => Cardinality(PendingOf(collabs, a, b)) <= 1

\* C27: also while an accept and a decline of one collaboration between two
\* accounts are handled at once, the collaboration keeps its status once it
\* is accepted or declined, and the accept and the decline are not both
\* answered with success.
C27_OneResolutionUnderRace ==
    [][ /\ \A i \in DOMAIN collabs :
            ( /\ collabs[i].requester_id # collabs[i].target_artist_id
              /\ collabs[i].status \in {"accepted", "declined"} )
                => collabs'[i].status = collabs[i].status
        /\ \A p, q \in Procs :
            ( /\ Ends(p, ResolveOps)
              /\ resp'[p].status = 200
              /\ req'[q].op \in ResolveOps \ {req'[p].op}
              /\ pc'[q] = "ready"
              /\ resp'[p].body.requester_id # resp'[p].body.target_artist_id
              /\ req'[q].body.collaboration_id = req'[p].body.collaboration_id )
                => resp'[q].status # 200
      ]_vars

\* The operations of the music scenarios that take a bearer token.
AuthenticatedOps ==
    {"get_current_user_endpoint", "upload_music_track", "update_music_track",
     "delete_music_track", "music_upload_music_track",
     "music_update_music_track", "music_delete_music_track"}

\* C28: a request of a token-authenticated operation whose bearer is a
\* deactivated account is not answered with success (200 or 201), and no
\* step of it changes an account, a profile, a collaboration or a track.
C28_DeactivatedAccountsNotServed ==
    [][\A p \in Procs :
        ( /\ Serves(p, AuthenticatedOps)
          /\ \E u \in Bearer(req'[p].token) : ~ u.is_active ) =>
            /\ pc'[p] = "ready" => resp'[p].status \notin {200, 201}
            /\ UNCHANGED <<users, profiles, collabs, tracks>>
      ]_vars

\* C29: every track in the store belongs to an account of role artist.
C29_OnlyArtistsOwnTracks ==
    \A i \in DOMAIN tracks :
        tracks[i].artist_id \in DOMAIN users
            => users[tracks[i].artist_id].role = "artist"

\* C30: the requester and the target of every collaboration are two
\* different accounts, and a send whose target is the requester is rejected
\* and adds no record.
C30_NoSelfCollaboration ==
    [][ /\ \A i \in DOMAIN collabs' :
            collabs'[i].requester_id # collabs'[i].target_artist_id
        /\ \A p \in Procs :
            ( /\ Ends(p, {"send_collaboration_request"})
              /\ \E a \in Bearer(req'[p].token) :
                    a.id = req'[p].body.target_artist_id )
                => /\ Rejected(resp'[p])
                   /\ collabs' = collabs
      ]_vars
====
